---- MODULE Spec2Model ----
(***************************************************************************)
(* skingo: the composition runtime of a TemplateSet (Execute, and the      *)
(* template functions comp, param, paramOr, dict, _register_template that  *)
(* ParseDirs installs) and the bulk load of ParseDirs.                     *)
(*                                                                         *)
(* A compiled template is a sequence of instructions, one per template     *)
(* action of its markup.  Every goroutine that calls Execute evaluates     *)
(* its templates sequentially; the steps of different goroutines           *)
(* interleave at the granularity of the critical sections of ts.mu and     *)
(* compMu.                                                                 *)
(***************************************************************************)
EXTENDS Integers, Sequences, FiniteSets, TLC

VARIABLES
    templates,      \* ts.templates: name -> [HTML, CSS, JS]
    compiled,       \* names n such that masterTmpl defines n + ".html"
    layout,         \* ts.layout: NoLayout (nil) or the compiled shell
    usedTemplates,  \* ts.usedTemplates, one map per TemplateSet
    compStack,      \* compStack of ParseDirs, one slice per TemplateSet
    pc,             \* per goroutine: position inside Execute
    cur,            \* per goroutine: the (name, data) of its Execute call
    frames,         \* per goroutine: its Go call stack of template evaluations
    ld,             \* per goroutine: layoutData (Yield and the aggregation order)
    w,              \* per goroutine: what was written to the caller's writer
    res,            \* per goroutine: what its last Execute returned
    nExec,          \* number of Execute calls made so far
    last,           \* history: the Execute call that returned last
    reached,        \* history: names this render itself marked before its aggregation
    rd,             \* history: last param/paramOr read of the goroutine
    ret,            \* history: last return of comp in the goroutine
    files,          \* ParseDirs: the directory listing being loaded
    li,             \* ParseDirs: index of the next file of the first pass
    loadPc,         \* ParseDirs: "idle", "first", "second", "done"
    loadErr,        \* ParseDirs: the error it returned
    layoutFound,    \* ParseDirs: layoutFound
    doc,            \* parseFile: the file it is called with (name and content)
    an,             \* history: the locals of the last parseFile call
    parseErr,       \* parseFile: the error it returned
    isolatedCache,  \* ts.isolatedCache: filename -> compiled isolated template
    disk,           \* the files ExecuteIsolated reads: filename -> content
    iso,            \* per goroutine: its ExecuteIsolated call
    fn,             \* a call of comp, param or paramOr: its inputs and its result
    reg,            \* per goroutine: its ParseDirs call on the shared registry
    lk              \* the mutexes of the runtime and each goroutine's position

vars == <<templates, compiled, layout, usedTemplates, compStack, pc, cur,
          frames, ld, w, res, nExec, last, reached, rd, ret,
          files, li, loadPc, loadErr, layoutFound,
          doc, an, parseErr, isolatedCache, disk, iso, fn, reg, lk>>

renderVars == <<usedTemplates, compStack, pc, cur, frames, ld, w, res,
                nExec, last, reached, rd, ret>>
loadVars == <<templates, compiled, layout, files, li, loadPc, loadErr,
              layoutFound>>
compileVars == <<doc, an, parseErr>>
isoVars == <<isolatedCache, disk, iso>>
auxVars == <<fn, reg, lk>>

-----------------------------------------------------------------------------
(* Bounds *)

NumRenders == 2     \* goroutines that call Execute on the one TemplateSet
MaxExecutes == 2    \* Execute calls in one behaviour
MaxFiles == 3       \* files of the directory listing of one bulk load

Renders == 1..NumRenders

-----------------------------------------------------------------------------
(* Values *)

Nil == "nil"
NoErr == "none"
Running == "running"
Ok == "ok"
ErrNotFound == "template not found"
ErrNoLayout == "layout template not defined"
ErrDictOdd == "dict needs key and value pairs as arguments"
ErrDictKey == "dict keys must be strings"
ErrUndefined == "template is undefined"
ErrRead == "read error"
ErrCompile == "error parsing template"
ErrLayoutMissing == "layout template not found"

\* values that are not Go strings (used as dict keys)
IntVals == {"#1"}

layoutName == "layout"

\* the text of the pipeline {{ comp .Data.Widget }} as the shell scan captures it
DataExpr == ".Data.Widget"

-----------------------------------------------------------------------------
(* Template instructions *)

Ins(op, name, args, idx) == [op |-> op, name |-> name, args |-> args, idx |-> idx]
T(s) == Ins("text", s, <<>>, 0)             \* literal text
C(n, a) == Ins("comp", n, a, 0)             \* {{ comp "n" a... }}
CD == Ins("compData", DataExpr, <<>>, 0)    \* {{ comp .Data.Widget }}
P(i) == Ins("param", "", <<>>, i)           \* {{ param i }}
PO(i, d) == Ins("paramOr", d, <<>>, i)      \* {{ paramOr i d }}
D(vals) == Ins("dict", "", vals, 0)         \* {{ dict vals... }}
REG(n) == Ins("reg", n, <<>>, 0)            \* {{ _register_template "n" }}
YIELD == Ins("yield", "", <<>>, 0)          \* {{ .Yield }}
CSSI == Ins("css", "", <<>>, 0)             \* <style>{{ .CSS }}</style>
JSI == Ins("js", "", <<>>, 0)               \* <script>{{ .JS }}</script>

Doc(name, ext, readable, compiles, html, css, js) ==
    [name |-> name, ext |-> ext, readable |-> readable, compiles |-> compiles,
     html |-> html, css |-> css, js |-> js]

\* The documents of the template directory, in os.ReadDir order.
FixtureFiles ==
    << Doc("E", ".html", TRUE, TRUE, << C("F", <<"a7">>) >>, "cE", ""),
       Doc("F", ".html", TRUE, TRUE,
           << C("G", <<"a1">>), C("G", <<"a2">>), PO(0, "dflt") >>, "", "jF"),
       Doc("G", ".html", TRUE, TRUE, << P(0) >>, "cG", ""),
       Doc("H", ".html", TRUE, TRUE, << T("h") >>, "cH", "jH"),
       Doc("K", ".html", TRUE, TRUE, << C("L", <<"a3">>) >>, "cK", ""),
       Doc("L", ".html", TRUE, TRUE, << C("N", <<"a5">>) >>, "", ""),
       Doc("M", ".html", TRUE, TRUE, << C("Zz", <<"a4">>) >>, "cM", ""),
       Doc("N", ".html", TRUE, TRUE, << D(<<"key">>) >>, "", "jN"),
       Doc("Q", ".html", TRUE, TRUE, << D(<<"#1", "v">>) >>, "", ""),
       Doc("S", ".html", TRUE, TRUE, <<>>, "", "jS"),
       Doc("W", ".html", TRUE, TRUE, << T("w") >>, "cW", "jW"),
       Doc(layoutName, ".html", TRUE, TRUE,
           << CSSI, C("S", <<>>), YIELD, CD, JSI >>, "", ""),
       Doc("notes", ".txt", TRUE, TRUE, <<>>, "", "") >>

\* the inputs of Execute: the entry's name and the Widget of the data
Inputs ==
    ({"E", "F"} \X {"W", "Zz"}) \cup ({"K", "M", "Q", "Zz"} \X {"W"})

\* the inputs of the Execute calls that run at the same time
ConcInputs == {<<"F", "W">>, <<"K", "W">>}

-----------------------------------------------------------------------------
(* Bulk load: parseFile and ParseDirs *)

TemplateExts == {".html", ".tmpl"}

\* ts.layout == nil, and the Layout parseLayoutFile installs
NoLayout == [nil |-> TRUE, HTML |-> <<>>, parses |-> TRUE]
Layout(html, parses) == [nil |-> FALSE, HTML |-> html, parses |-> parses]

NoTemplates == [n \in {} |-> 0]

\* parseFile: read the document, install the shell or register the component.
ParseFile(tpl, lay, file) ==
    IF ~file.readable
    THEN [err |-> ErrRead, templates |-> tpl, layout |-> lay]
    ELSE IF file.name = layoutName
    THEN [err |-> NoErr, templates |-> tpl, layout |-> Layout(file.html, file.compiles)]
    ELSE [err |-> NoErr,
          templates |-> (file.name :> [HTML |-> file.html, CSS |-> file.css,
                                       JS |-> file.js, parses |-> file.compiles])
                        @@ tpl,
          layout |-> lay]

\* faulty variant: the error of parseFile is dropped and the loop goes on
ErrorIgnored(err) == FALSE

\* if err := ts.parseFile(...); err != nil { return ... }
ErrorReturns(err) == err # NoErr

\* The first pass of ParseDirs over a whole listing without errors.
RECURSIVE LoadAll(_, _, _, _)
LoadAll(tpl, lay, fs, i) ==
    IF i > Len(fs) THEN [templates |-> tpl, layout |-> lay]
    ELSE IF fs[i].ext \notin TemplateExts THEN LoadAll(tpl, lay, fs, i + 1)
    ELSE LET r == ParseFile(tpl, lay, fs[i])
         IN  LoadAll(r.templates, r.layout, fs, i + 1)

Loaded == LoadAll(NoTemplates, NoLayout, FixtureFiles, 1)

\* second pass: the text that is compiled for a component
RegisteredHTML(tpl, name) == <<REG(name)>> \o tpl[name].HTML

ParseDirsStart ==
    /\ loadPc = "idle"
    /\ loadPc' = "first"
    /\ li' = 1
    /\ layoutFound' = FALSE
    /\ UNCHANGED <<templates, compiled, layout, files, loadErr>>
    /\ UNCHANGED <<renderVars, compileVars, isoVars, auxVars>>

FirstPassStep ==
    /\ loadPc = "first"
    /\ li <= Len(files)
    /\ LET file == files[li] IN
        IF file.ext \notin TemplateExts
        THEN /\ li' = li + 1
             /\ UNCHANGED <<templates, layout, loadPc, loadErr, layoutFound>>
        ELSE LET r == ParseFile(templates, layout, file) IN
             /\ layoutFound' = (layoutFound \/ file.name = layoutName)
             /\ templates' = r.templates
             /\ layout' = r.layout
             /\ IF ErrorReturns(r.err)
                THEN /\ loadErr' = r.err
                     /\ loadPc' = "done"
                     /\ UNCHANGED li
                ELSE /\ li' = li + 1
                     /\ UNCHANGED <<loadErr, loadPc>>
    /\ UNCHANGED <<compiled, files>>
    /\ UNCHANGED <<renderVars, compileVars, isoVars, auxVars>>

FirstPassEnd ==
    /\ loadPc = "first"
    /\ li > Len(files)
    /\ IF ~layoutFound
       THEN /\ loadErr' = ErrLayoutMissing
            /\ loadPc' = "done"
       ELSE /\ loadPc' = "second"
            /\ UNCHANGED loadErr
    /\ UNCHANGED <<templates, compiled, layout, files, li, layoutFound>>
    /\ UNCHANGED <<renderVars, compileVars, isoVars, auxVars>>

\* second pass: range over the map ts.templateHTML, in no specified order
SecondPassStep ==
    /\ loadPc = "second"
    /\ \E name \in DOMAIN templates \ compiled :
        IF templates[name].parses
        THEN /\ compiled' = compiled \cup {name}
             /\ UNCHANGED <<loadErr, loadPc>>
        ELSE /\ loadErr' = ErrCompile
             /\ loadPc' = "done"
             /\ UNCHANGED compiled
    /\ UNCHANGED <<templates, layout, files, li, layoutFound>>
    /\ UNCHANGED <<renderVars, compileVars, isoVars, auxVars>>

\* the shell is compiled last
SecondPassEnd ==
    /\ loadPc = "second"
    /\ DOMAIN templates \subseteq compiled
    /\ loadPc' = "done"
    /\ loadErr' = IF layout.parses THEN NoErr ELSE ErrCompile
    /\ UNCHANGED <<templates, compiled, layout, files, li, layoutFound>>
    /\ UNCHANGED <<renderVars, compileVars, isoVars, auxVars>>

-----------------------------------------------------------------------------
(* Composition runtime: the template functions of ParseDirs *)

Range(s) == {s[i] : i \in 1..Len(s)}

\* faulty variant: the name is not recorded
UsedMarkNothing(used, name) == used

\* ts.usedTemplates[name] = true, under ts.mu
UsedMark(used, name) == used \cup {name}

\* faulty variant: the map of the previous render is kept
UsedResetKeeps(used) == used

\* ts.usedTemplates = make(map[string]bool), under ts.mu
UsedReset(used) == {}

\* faulty variant: the shell text is not scanned
ShellRefsNone(lay) == {}

\* the names compRegex finds in the shell text
ShellRefs(lay) ==
    {lay.HTML[i].name :
        i \in {j \in 1..Len(lay.HTML) : lay.HTML[j].op \in {"comp", "compData"}}}

\* faulty variant: an invocation made inside another one is not pushed
PushFrameWhenEmpty(stack, args, name, owner) ==
    IF stack = <<>> THEN <<[Args |-> args, Name |-> name, owner |-> owner]>> ELSE stack

\* compStack = append(compStack, compCall{Args, Name}); owner is a history field
PushFrame(stack, args, name, owner) ==
    Append(stack, [Args |-> args, Name |-> name, owner |-> owner])

\* faulty variant: the pop is skipped on the error return
PopFrameOnSuccess(stack, err) ==
    IF err = NoErr /\ Len(stack) > 0 THEN SubSeq(stack, 1, Len(stack) - 1) ELSE stack

\* the deferred function of comp: it runs on the error return and on the normal one
PopFrame(stack, err) ==
    IF Len(stack) > 0 THEN SubSeq(stack, 1, Len(stack) - 1) ELSE stack

\* faulty variant: the oldest frame is read instead of the newest
ParamOldest(stack, index) ==
    IF Len(stack) = 0 THEN Nil
    ELSE IF index < 0 \/ index >= Len(stack[1].Args) THEN Nil
    ELSE stack[1].Args[index + 1]

\* param
Param(stack, index) ==
    IF Len(stack) = 0 THEN Nil
    ELSE LET current == stack[Len(stack)] IN
         IF index < 0 \/ index >= Len(current.Args) THEN Nil
         ELSE current.Args[index + 1]

\* faulty variant: an argument that is nil is returned as it is
ParamOrKeepsNil(stack, index, defaultValue) ==
    IF Len(stack) = 0 THEN defaultValue
    ELSE LET current == stack[Len(stack)] IN
         IF index < 0 \/ index >= Len(current.Args) THEN defaultValue
         ELSE current.Args[index + 1]

\* paramOr
ParamOr(stack, index, defaultValue) ==
    IF Len(stack) = 0 THEN defaultValue
    ELSE LET current == stack[Len(stack)] IN
         IF index < 0 \/ index >= Len(current.Args) THEN defaultValue
         ELSE IF current.Args[index + 1] = Nil THEN defaultValue
         ELSE current.Args[index + 1]

\* history: the goroutine whose frame param and paramOr take their value from
FrameRead(stack, index) ==
    IF Len(stack) = 0 THEN 0
    ELSE IF index < 0 \/ index >= Len(stack[Len(stack)].Args) THEN 0
    ELSE stack[Len(stack)].owner

\* faulty variant: the number of arguments is not checked
DictAnyCount(values) ==
    IF \E i \in 1..Len(values) : i % 2 = 1 /\ values[i] \in IntVals
    THEN ErrDictKey
    ELSE NoErr

\* dict: the error it returns (the map it builds is not used by the model)
Dict(values) ==
    IF Len(values) % 2 # 0 THEN ErrDictOdd
    ELSE IF \E i \in 1..Len(values) : i % 2 = 1 /\ values[i] \in IntVals
    THEN ErrDictKey
    ELSE NoErr

\* ExecuteTemplate(&buf, name + ".html", data): the lookup in masterTmpl
Lookup(defined, name) == IF name \in defined THEN NoErr ELSE ErrUndefined

-----------------------------------------------------------------------------
(* Execute *)

Frame(via, name, args, st) ==
    [via |-> via, name |-> name, args |-> args, st |-> st, ip |-> 1,
     buf |-> <<>>, err |-> NoErr, d0 |-> 0]

Top(r) == frames[r][Len(frames[r])]
Body(f) == IF f.via = "layout" THEN layout.HTML ELSE RegisteredHTML(templates, f.name)
Evaluating(r) == pc[r] \in {"eval", "layout"} /\ Len(frames[r]) > 0
AtInstr(r) == Evaluating(r) /\ Top(r).st = "run" /\ Top(r).ip <= Len(Body(Top(r)))
Instr(r) == Body(Top(r))[Top(r).ip]
AtEnd(f) == f.st = "run" /\ f.ip > Len(Body(f))

\* rd: n = 1 when the goroutine's last step was a read made in component "in";
\*     got is what it returned, want the argument of the enclosing invocation,
\*     from the goroutine that pushed the frame the value was taken from (or 0)
NoRead == [want |-> Nil, got |-> Nil, n |-> 0, in |-> "", from |-> 0]
\* ret: n = 1 when the goroutine's last step was a return of comp; before and
\*      after are the depths of compStack before its push and after its pop,
\*      popped the goroutine that had pushed the frame it removed (or 0)
NoRet == [before |-> 0, after |-> 0, err |-> NoErr, n |-> 0, popped |-> 0]
NoData == [Yield |-> <<>>, CSS |-> <<>>, JS |-> <<>>]
NoCall == [name |-> "", data |-> ""]
NoLast == [name |-> "", data |-> "", res |-> NoErr, css |-> <<>>, js |-> <<>>]

\* the orders in which a range over a map can visit its keys
RECURSIVE Orders(_)
Orders(S) ==
    IF S = {} THEN {<<>>}
    ELSE UNION {{<<x>> \o o : o \in Orders(S \ {x})} : x \in S}

RECURSIVE Filter(_, _)
Filter(seq, keep) ==
    IF seq = <<>> THEN <<>>
    ELSE (IF Head(seq) \in keep THEN <<Head(seq)>> ELSE <<>>) \o Filter(Tail(seq), keep)

\* the aggregation loop over the used names in the order visited: the styles
\* (scripts) of the registered ones that have any, one after the other
AllCSS(order, tpl) ==
    LET hit == Filter(order, {n \in DOMAIN tpl : tpl[n].CSS # ""})
    IN  [i \in 1..Len(hit) |-> tpl[hit[i]].CSS]
AllJS(order, tpl) ==
    LET hit == Filter(order, {n \in DOMAIN tpl : tpl[n].JS # ""})
    IN  [i \in 1..Len(hit) |-> tpl[hit[i]].JS]

\* what a buffer holds where the evaluator printed the value of a pipeline
ValueText == "{{value}}"

\* the top frame, with the instruction pointer advanced and out appended to its buffer
Emit(r, out) ==
    IF Top(r).via = "layout"
    THEN /\ w' = [w EXCEPT ![r] = @ \o out]
         /\ frames' = [frames EXCEPT ![r][Len(frames[r])].ip = @ + 1]
    ELSE /\ frames' = [frames EXCEPT ![r][Len(frames[r])].ip = @ + 1,
                                     ![r][Len(frames[r])].buf = @ \o out]
         /\ UNCHANGED w

\* the evaluation of the top frame stops with err: comp goes to its deferred pop,
\* the evaluation of the entry or of the shell makes Execute return err
Abort(r, err) ==
    IF Top(r).via = "comp"
    THEN /\ frames' = [frames EXCEPT ![r][Len(frames[r])].st = "pop",
                                     ![r][Len(frames[r])].err = err]
         /\ UNCHANGED <<pc, res>>
    ELSE /\ frames' = [frames EXCEPT ![r] = <<>>]
         /\ pc' = [pc EXCEPT ![r] = "done"]
         /\ res' = [res EXCEPT ![r] = err]

Idle(r) == pc[r] = "idle"

\* Execute, up to the end of its first critical section
ExecuteStart(r, name, data) ==
    /\ Idle(r)
    /\ nExec < MaxExecutes
    /\ nExec' = nExec + 1
    /\ cur' = [cur EXCEPT ![r] = [name |-> name, data |-> data]]
    /\ w' = [w EXCEPT ![r] = <<>>]
    /\ ld' = [ld EXCEPT ![r] = NoData]
    /\ reached' = [reached EXCEPT ![r] = {}]
    /\ rd' = [rd EXCEPT ![r] = NoRead]
    /\ ret' = [ret EXCEPT ![r] = NoRet]
    /\ frames' = [frames EXCEPT ![r] = <<>>]
    /\ IF name \notin DOMAIN templates
       THEN /\ res' = [res EXCEPT ![r] = ErrNotFound]
            /\ pc' = [pc EXCEPT ![r] = "done"]
            /\ UNCHANGED usedTemplates
       ELSE IF layout = NoLayout
       THEN /\ res' = [res EXCEPT ![r] = ErrNoLayout]
            /\ pc' = [pc EXCEPT ![r] = "done"]
            /\ UNCHANGED usedTemplates
       ELSE /\ res' = [res EXCEPT ![r] = Running]
            /\ pc' = [pc EXCEPT ![r] = "scan"]
            /\ usedTemplates' = UsedReset(usedTemplates)
    /\ UNCHANGED <<compStack, last>>
    /\ UNCHANGED <<loadVars, compileVars, isoVars, auxVars>>

\* the static scan of the shell, then the start of the entry's evaluation
ShellScan(r) ==
    /\ pc[r] = "scan"
    /\ usedTemplates' = usedTemplates \cup ShellRefs(layout)
    /\ reached' = [reached EXCEPT ![r] = @ \cup ShellRefs(layout)]
    /\ IF Lookup(compiled, cur[r].name) = NoErr
       THEN /\ pc' = [pc EXCEPT ![r] = "eval"]
            /\ frames' = [frames EXCEPT ![r] = <<Frame("entry", cur[r].name, <<>>, "run")>>]
            /\ UNCHANGED res
       ELSE /\ pc' = [pc EXCEPT ![r] = "done"]
            /\ res' = [res EXCEPT ![r] = Lookup(compiled, cur[r].name)]
            /\ UNCHANGED frames
    /\ rd' = [rd EXCEPT ![r] = NoRead]
    /\ ret' = [ret EXCEPT ![r] = NoRet]
    /\ UNCHANGED <<compStack, cur, ld, w, nExec, last>>
    /\ UNCHANGED <<loadVars, compileVars, isoVars, auxVars>>

\* {{ _register_template "name" }}
Register(r) ==
    /\ AtInstr(r)
    /\ Instr(r).op = "reg"
    /\ usedTemplates' = UsedMark(usedTemplates, Instr(r).name)
    /\ reached' = [reached EXCEPT ![r] = IF pc[r] = "eval" THEN @ \cup {Instr(r).name} ELSE @]
    /\ Emit(r, <<>>)
    /\ rd' = [rd EXCEPT ![r] = NoRead]
    /\ ret' = [ret EXCEPT ![r] = NoRet]
    /\ UNCHANGED <<compStack, pc, cur, ld, res, nExec, last>>
    /\ UNCHANGED <<loadVars, compileVars, isoVars, auxVars>>

\* literal text, and the fields of layoutData in the shell
Text(r) ==
    /\ AtInstr(r)
    /\ Instr(r).op \in {"text", "yield", "css", "js"}
    /\ Emit(r, CASE Instr(r).op = "text" -> <<Instr(r).name>>
                 [] Instr(r).op = "yield" -> ld[r].Yield
                 [] Instr(r).op = "css" -> ld[r].CSS
                 [] Instr(r).op = "js" -> ld[r].JS)
    /\ rd' = [rd EXCEPT ![r] = NoRead]
    /\ ret' = [ret EXCEPT ![r] = NoRet]
    /\ UNCHANGED <<usedTemplates, compStack, pc, cur, ld, res, nExec, reached, last>>
    /\ UNCHANGED <<loadVars, compileVars, isoVars, auxVars>>

\* the arguments of the invocation the frame evaluates (none for entry and shell)
OwnParam(f, index) ==
    IF index < 0 \/ index >= Len(f.args) THEN Nil ELSE f.args[index + 1]

ParamRead(r) ==
    /\ AtInstr(r)
    /\ Instr(r).op = "param"
    /\ LET v == Param(compStack, Instr(r).idx) IN
        /\ rd' = [rd EXCEPT ![r] = [want |-> OwnParam(Top(r), Instr(r).idx),
                                    got |-> v, n |-> 1, in |-> Top(r).name,
                                    from |-> FrameRead(compStack, Instr(r).idx)]]
        /\ Emit(r, <<ValueText>>)
    /\ ret' = [ret EXCEPT ![r] = NoRet]
    /\ UNCHANGED <<usedTemplates, compStack, pc, cur, ld, res, nExec, reached, last>>
    /\ UNCHANGED <<loadVars, compileVars, isoVars, auxVars>>

ParamOrRead(r) ==
    /\ AtInstr(r)
    /\ Instr(r).op = "paramOr"
    /\ LET v == ParamOr(compStack, Instr(r).idx, Instr(r).name)
           own == OwnParam(Top(r), Instr(r).idx)
       IN
        /\ rd' = [rd EXCEPT ![r] = [want |-> IF own = Nil THEN Instr(r).name ELSE own,
                                    got |-> v, n |-> 1, in |-> Top(r).name,
                                    from |-> FrameRead(compStack, Instr(r).idx)]]
        /\ Emit(r, <<ValueText>>)
    /\ ret' = [ret EXCEPT ![r] = NoRet]
    /\ UNCHANGED <<usedTemplates, compStack, pc, cur, ld, res, nExec, reached, last>>
    /\ UNCHANGED <<loadVars, compileVars, isoVars, auxVars>>

DictCall(r) ==
    /\ AtInstr(r)
    /\ Instr(r).op = "dict"
    /\ IF Dict(Instr(r).args) = NoErr
       THEN /\ Emit(r, <<>>)
            /\ UNCHANGED <<pc, res>>
       ELSE /\ Abort(r, Dict(Instr(r).args))
            /\ UNCHANGED w
    /\ rd' = [rd EXCEPT ![r] = NoRead]
    /\ ret' = [ret EXCEPT ![r] = NoRet]
    /\ UNCHANGED <<usedTemplates, compStack, cur, ld, nExec, reached, last>>
    /\ UNCHANGED <<loadVars, compileVars, isoVars, auxVars>>

\* comp, up to the end of its first critical section (ts.mu)
CompCall(r) ==
    /\ AtInstr(r)
    /\ Instr(r).op \in {"comp", "compData"}
    /\ LET name == IF Instr(r).op = "comp" THEN Instr(r).name ELSE cur[r].data IN
        /\ usedTemplates' = UsedMark(usedTemplates, name)
        /\ reached' = [reached EXCEPT ![r] = IF pc[r] = "eval" THEN @ \cup {name} ELSE @]
        /\ frames' = [frames EXCEPT ![r] = Append(@, Frame("comp", name, Instr(r).args, "push"))]
    /\ rd' = [rd EXCEPT ![r] = NoRead]
    /\ ret' = [ret EXCEPT ![r] = NoRet]
    /\ UNCHANGED <<compStack, pc, cur, ld, w, res, nExec, last>>
    /\ UNCHANGED <<loadVars, compileVars, isoVars, auxVars>>

\* comp: the push (compMu), then the start of ExecuteTemplate
CompPush(r) ==
    /\ Evaluating(r)
    /\ Top(r).st = "push"
    /\ compStack' = PushFrame(compStack, Top(r).args, Top(r).name, r)
    /\ frames' = [frames EXCEPT
            ![r][Len(frames[r])].d0 = Len(compStack),
            ![r][Len(frames[r])].err = Lookup(compiled, Top(r).name),
            ![r][Len(frames[r])].st =
                IF Lookup(compiled, Top(r).name) = NoErr THEN "run" ELSE "pop"]
    /\ rd' = [rd EXCEPT ![r] = NoRead]
    /\ ret' = [ret EXCEPT ![r] = NoRet]
    /\ UNCHANGED <<usedTemplates, pc, cur, ld, w, res, nExec, reached, last>>
    /\ UNCHANGED <<loadVars, compileVars, isoVars, auxVars>>

\* comp: the deferred pop (compMu), then the return to the calling evaluation
CompReturn(r) ==
    /\ Evaluating(r)
    /\ Top(r).via = "comp"
    /\ Top(r).st = "pop" \/ AtEnd(Top(r))
    /\ LET f == Top(r)
           n == Len(frames[r])
           caller == frames[r][n - 1]
       IN
        /\ compStack' = PopFrame(compStack, f.err)
        /\ ret' = [ret EXCEPT ![r] =
                     [before |-> f.d0, after |-> Len(compStack'),
                      err |-> f.err, n |-> 1,
                      popped |-> IF Len(compStack) > 0
                                 THEN compStack[Len(compStack)].owner ELSE 0]]
        /\ IF f.err = NoErr
           THEN /\ IF caller.via = "layout"
                   THEN /\ w' = [w EXCEPT ![r] = @ \o f.buf]
                        /\ frames' = [frames EXCEPT ![r] =
                              [SubSeq(@, 1, n - 1) EXCEPT ![n - 1].ip = @ + 1]]
                   ELSE /\ frames' = [frames EXCEPT ![r] =
                              [SubSeq(@, 1, n - 1) EXCEPT ![n - 1].ip = @ + 1,
                                                          ![n - 1].buf = @ \o f.buf]]
                        /\ UNCHANGED w
                /\ UNCHANGED <<pc, res>>
           ELSE /\ IF caller.via = "comp"
                   THEN /\ frames' = [frames EXCEPT ![r] =
                              [SubSeq(@, 1, n - 1) EXCEPT ![n - 1].st = "pop",
                                                          ![n - 1].err = f.err]]
                        /\ UNCHANGED <<pc, res>>
                   ELSE /\ frames' = [frames EXCEPT ![r] = <<>>]
                        /\ pc' = [pc EXCEPT ![r] = "done"]
                        /\ res' = [res EXCEPT ![r] = f.err]
                /\ UNCHANGED w
    /\ rd' = [rd EXCEPT ![r] = NoRead]
    /\ UNCHANGED <<usedTemplates, cur, ld, nExec, reached, last>>
    /\ UNCHANGED <<loadVars, compileVars, isoVars, auxVars>>

\* the aggregation loop (ts.mu), then the start of the shell's evaluation into w
Aggregate(r) ==
    /\ pc[r] = "eval"
    /\ Len(frames[r]) = 1
    /\ AtEnd(Top(r))
    /\ \E order \in Orders(usedTemplates) :
         ld' = [ld EXCEPT ![r] = [Yield |-> Top(r).buf,
                                  CSS |-> AllCSS(order, templates),
                                  JS |-> AllJS(order, templates)]]
    /\ pc' = [pc EXCEPT ![r] = "layout"]
    /\ frames' = [frames EXCEPT ![r] = <<Frame("layout", layoutName, <<>>, "run")>>]
    /\ rd' = [rd EXCEPT ![r] = NoRead]
    /\ ret' = [ret EXCEPT ![r] = NoRet]
    /\ UNCHANGED <<usedTemplates, compStack, cur, w, res, nExec, reached, last>>
    /\ UNCHANGED <<loadVars, compileVars, isoVars, auxVars>>

\* the shell's evaluation ends: Execute returns nil
LayoutDone(r) ==
    /\ pc[r] = "layout"
    /\ Len(frames[r]) = 1
    /\ AtEnd(Top(r))
    /\ pc' = [pc EXCEPT ![r] = "done"]
    /\ res' = [res EXCEPT ![r] = Ok]
    /\ frames' = [frames EXCEPT ![r] = <<>>]
    /\ rd' = [rd EXCEPT ![r] = NoRead]
    /\ ret' = [ret EXCEPT ![r] = NoRet]
    /\ UNCHANGED <<usedTemplates, compStack, cur, ld, w, nExec, reached, last>>
    /\ UNCHANGED <<loadVars, compileVars, isoVars, auxVars>>

\* the caller of Execute has the error and the writer's content
Returned(r) ==
    /\ pc[r] = "done"
    /\ pc' = [pc EXCEPT ![r] = "idle"]
    /\ last' = [name |-> cur[r].name, data |-> cur[r].data, res |-> res[r],
                css |-> ld[r].CSS, js |-> ld[r].JS]
    /\ cur' = [cur EXCEPT ![r] = NoCall]
    /\ res' = [res EXCEPT ![r] = NoErr]
    /\ w' = [w EXCEPT ![r] = <<>>]
    /\ ld' = [ld EXCEPT ![r] = NoData]
    /\ reached' = [reached EXCEPT ![r] = {}]
    /\ rd' = [rd EXCEPT ![r] = NoRead]
    /\ ret' = [ret EXCEPT ![r] = NoRet]
    /\ UNCHANGED <<usedTemplates, compStack, frames, nExec>>
    /\ UNCHANGED <<loadVars, compileVars, isoVars, auxVars>>

Step(r) ==
    \/ ShellScan(r)
    \/ Register(r)
    \/ Text(r)
    \/ ParamRead(r)
    \/ ParamOrRead(r)
    \/ DictCall(r)
    \/ CompCall(r)
    \/ CompPush(r)
    \/ CompReturn(r)
    \/ Aggregate(r)
    \/ LayoutDone(r)

-----------------------------------------------------------------------------
(* Text: a document is a sequence of lexemes, and the string functions and  *)
(* regular expressions of the source work lexeme by lexeme.  An index is    *)
(* 1-based and 0 stands for Go's -1.                                        *)

Spaces == {" ", "\n"}

Front(s) == SubSeq(s, 1, Len(s) - 1)
From(s, i) == SubSeq(s, i, Len(s))

RECURSIVE TrimLeft(_)
TrimLeft(s) ==
    IF s # <<>> /\ Head(s) \in Spaces THEN TrimLeft(Tail(s)) ELSE s

RECURSIVE TrimRight(_)
TrimRight(s) ==
    IF s # <<>> /\ s[Len(s)] \in Spaces THEN TrimRight(Front(s)) ELSE s

\* strings.TrimSpace
TrimSpace(s) == TrimRight(TrimLeft(s))

\* strings.HasPrefix
HasPrefix(s, prefix) ==
    Len(s) >= Len(prefix) /\ SubSeq(s, 1, Len(prefix)) = prefix

\* strings.Index, searching from position i on
RECURSIVE IndexFrom(_, _, _)
IndexFrom(s, substr, i) ==
    IF i + Len(substr) - 1 > Len(s) THEN 0
    ELSE IF SubSeq(s, i, i + Len(substr) - 1) = substr THEN i
    ELSE IndexFrom(s, substr, i + 1)

\* strings.Index and strings.Contains
Index(s, substr) == IndexFrom(s, substr, 1)
Contains(s, substr) == Index(s, substr) # 0

\* strings.Replace(s, old, new, 1)
ReplaceFirst(s, old, new) ==
    LET i == Index(s, old) IN
    IF i = 0 THEN s
    ELSE SubSeq(s, 1, i - 1) \o new \o From(s, i + Len(old))

\* strings.ReplaceAll for a one-lexeme old
ReplaceAll(s, old, new) == [i \in 1..Len(s) |-> IF s[i] = old THEN new ELSE s[i]]

\* strings.Split(s, sep) for a one-lexeme sep
RECURSIVE Split(_, _)
Split(s, sep) ==
    LET i == Index(s, <<sep>>) IN
    IF i = 0 THEN << s >>
    ELSE << SubSeq(s, 1, i - 1) >> \o Split(From(s, i + 1), sep)

\* strings.SplitN(s, sep, 2)
SplitN2(s, sep) ==
    LET i == Index(s, <<sep>>) IN
    IF i = 0 THEN << s >>
    ELSE << SubSeq(s, 1, i - 1), From(s, i + 1) >>

\* strings.Join
RECURSIVE Join(_, _)
Join(elems, sep) ==
    IF elems = <<>> THEN <<>>
    ELSE IF Len(elems) = 1 THEN elems[1]
    ELSE elems[1] \o sep \o Join(Tail(elems), sep)

\* strings.Fields: the runs of lexemes between white space
RECURSIVE Fields(_)
Fields(s) ==
    LET a == TrimLeft(s) IN
    IF a = <<>> THEN <<>>
    ELSE LET n == IF \E k \in 1..Len(a) : a[k] \in Spaces
                  THEN (CHOOSE k \in 1..Len(a) :
                          a[k] \in Spaces /\ \A m \in 1..(k - 1) : a[m] \notin Spaces) - 1
                  ELSE Len(a)
         IN  << SubSeq(a, 1, n) >> \o Fields(From(a, n + 1))

\* faulty variant: the last block of the document is matched
FindLastBlock(s, open, close) ==
    LET opens == {i \in 1..Len(s) : s[i] = open} IN
    IF opens = {} THEN <<>>
    ELSE LET i == CHOOSE x \in opens : \A y \in opens : y <= x
             j == IndexFrom(s, <<">">>, i + 1)
         IN  IF j = 0 THEN <<>>
             ELSE LET k == IndexFrom(s, <<close>>, j + 1) IN
                  IF k = 0 THEN <<>>
                  ELSE << SubSeq(s, i, k), SubSeq(s, i + 1, j - 1),
                          SubSeq(s, j + 1, k - 1) >>

\* FindStringSubmatch of `(?s)<tag([^>]*)>(.*?)</tag>`: the whole match and
\* the two groups, or the empty sequence; matches[i] of the source is
\* Group(matches, i)
FindBlock(s, open, close) ==
    LET i == Index(s, <<open>>) IN
    IF i = 0 THEN <<>>
    ELSE LET j == IndexFrom(s, <<">">>, i + 1) IN
         IF j = 0 THEN <<>>
         ELSE LET k == IndexFrom(s, <<close>>, j + 1) IN
              IF k = 0 THEN <<>>
              ELSE << SubSeq(s, i, k), SubSeq(s, i + 1, j - 1),
                      SubSeq(s, j + 1, k - 1) >>

Group(matches, i) == matches[i + 1]

htmlRegex(s) == FindBlock(s, "<template", "</template>")
cssRegex(s) == FindBlock(s, "<style", "</style>")

\* `(?s)<script>(.*?)</script>`
jsRegex(s) ==
    LET i == Index(s, <<"<script>">>) IN
    IF i = 0 THEN <<>>
    ELSE LET k == IndexFrom(s, <<"</script>">>, i + 1) IN
         IF k = 0 THEN <<>>
         ELSE << SubSeq(s, i, k), SubSeq(s, i + 1, k - 1) >>

\* `unwrap`
unwrapRegex(s) == Contains(s, <<"unwrap">>)

\* the lexemes [a-zA-Z][a-zA-Z0-9]* of the documents
Idents ==
    {"div", "span", "b", "i", "p", "h3", "button", "card", "title", "primary",
     "x", "name"}

\* `^\s*<([a-zA-Z][a-zA-Z0-9]*)([^>]*)>`: the whole match, the tag name and
\* the attributes
firstTagRegex(s) ==
    LET a == TrimLeft(s)
        j == Index(a, <<">">>)
    IN  IF Len(a) >= 3 /\ a[1] = "<" /\ a[2] \in Idents /\ j # 0
        THEN << SubSeq(a, 1, j), <<a[2]>>, SubSeq(a, 3, j - 1) >>
        ELSE <<>>

\* `^\s*<[^>]+>` replaced by "": the first tag of the text is removed
openTagRegexRemove(s) ==
    LET a == TrimLeft(s)
        j == Index(a, <<">">>)
    IN  IF a # <<>> /\ ((a[1] = "<" /\ j >= 3) \/ (a[1] = "</" /\ j >= 2))
        THEN From(a, j + 1)
        ELSE s

\* `</\s*tag\s*>\s*$` matches
closeTagRegex(s, tagName) ==
    LET a == TrimRight(s) IN
    /\ a # <<>> /\ a[Len(a)] = ">"
    /\ LET b == TrimRight(Front(a)) IN
       /\ b # <<>> /\ <<b[Len(b)]>> = tagName
       /\ LET c == TrimRight(Front(b)) IN c # <<>> /\ c[Len(c)] = "</"

\* `</\s*[^>]+>\s*$` replaced by "": the text loses the closing tag it ends
\* with (the leftmost "</" that has no ">" before the last one)
anyCloseTagRegexRemove(s) ==
    LET a == TrimRight(s)
        ends(p) == /\ a[p] = "</"
                   /\ a[Len(a)] = ">"
                   /\ p + 1 < Len(a)
                   /\ ~Contains(SubSeq(a, p + 1, Len(a) - 1), <<">">>)
    IN  IF \E p \in 1..Len(a) : ends(p)
        THEN LET p == CHOOSE q \in 1..Len(a) :
                        ends(q) /\ \A m \in 1..(q - 1) : ~ends(m)
             IN  SubSeq(s, 1, p - 1)
        ELSE s

\* `class\s*=\s*["']([^"']*)["']`: the whole match and the class string
RECURSIVE classRegexFrom(_, _)
classRegexFrom(s, i) ==
    LET p == IndexFrom(s, <<"class=">>, i) IN
    IF p = 0 THEN <<>>
    ELSE LET rest == TrimLeft(From(s, p + 1))
             quote(t) == t \in {"\"", "'"}
             body == IF rest = <<>> THEN <<>> ELSE Tail(rest)
             q == IF \E k \in 1..Len(body) : quote(body[k])
                  THEN CHOOSE k \in 1..Len(body) :
                         quote(body[k]) /\ \A m \in 1..(k - 1) : ~quote(body[m])
                  ELSE 0
         IN  IF rest # <<>> /\ quote(rest[1]) /\ q # 0
             THEN << SubSeq(s, p, Len(s) - Len(body) + q), SubSeq(body, 1, q - 1) >>
             ELSE classRegexFrom(s, p + 1)

classRegex(s) == classRegexFrom(s, 1)

-----------------------------------------------------------------------------
(* The component compiler: parseLayoutFile, scopedCSS, containedScopedCSS   *)
(* and parseFile on the text of a document                                  *)

ErrNoHead == "layout template must contain </head> tag"
ErrNoBody == "layout template must contain </body> tag"

StylePlaceholder == "\n\t<style>{{ .CSS }}</style>\n"
ScriptPlaceholder == "\n\t<script>{{ .JS }}</script>\n"

\* faulty variant: the shell is installed although </body> is missing
ParseLayoutFileNoBodyCheck(content, lay) ==
    LET headCloseIndex == Index(content, <<"</head>">>) IN
    IF headCloseIndex = 0 THEN [err |-> ErrNoHead, layout |-> lay]
    ELSE [err |-> NoErr,
          layout |-> Layout(SubSeq(content, 1, headCloseIndex - 1)
                            \o <<StylePlaceholder>>
                            \o From(content, headCloseIndex), TRUE)]

\* parseLayoutFile: the error it returns and ts.layout after it
ParseLayoutFile(content, lay) ==
    LET headCloseIndex == Index(content, <<"</head>">>) IN
    IF headCloseIndex = 0 THEN [err |-> ErrNoHead, layout |-> lay]
    ELSE LET withStyle == SubSeq(content, 1, headCloseIndex - 1)
                          \o <<StylePlaceholder>>
                          \o From(content, headCloseIndex)
             bodyCloseIndex == Index(withStyle, <<"</body>">>)
         IN  IF bodyCloseIndex = 0 THEN [err |-> ErrNoBody, layout |-> lay]
             ELSE [err |-> NoErr,
                   layout |-> Layout(SubSeq(withStyle, 1, bodyCloseIndex - 1)
                                     \o <<ScriptPlaceholder>>
                                     \o From(withStyle, bodyCloseIndex), TRUE)]

\* generateScopeClass: "s-" and the first six hex digits of the MD5 of the name
generateScopeClass(name) ==
    CASE name = "card" -> "s-5dd219"
      [] name = "button" -> "s-ce50a0"
      [] name = "hello" -> "s-5d4140"
      [] name = "list" -> "s-10ae9f"
      [] OTHER -> "s-000000"

ElementTypeNormal == 0
ElementTypeSingle == 1
ElementTypeContainer == 2

\* faulty variant: a class selector is always scoped as a descendant
ScopedSelectorSpaced(selector, scopeClass, rootElementTag, rootClasses, elementType) ==
    IF selector = rootElementTag THEN selector \o <<".", scopeClass>>
    ELSE IF HasPrefix(selector, <<":">>) /\ rootElementTag # <<>>
    THEN rootElementTag \o <<".", scopeClass>> \o selector
    ELSE <<".", scopeClass, " ">> \o selector

\* scopedCSS, the body of the loop over selectorList: the rewritten selector
ScopedSelector(selector, scopeClass, rootElementTag, rootClasses, elementType) ==
    IF selector = rootElementTag
    THEN selector \o <<".", scopeClass>>
    ELSE IF HasPrefix(selector, <<".">>)
    THEN LET className == Tail(selector)
             useDirectScope ==
                 \/ elementType = ElementTypeSingle
                 \/ \E i \in 1..Len(rootClasses) : rootClasses[i] = className
         IN  IF useDirectScope
             THEN <<".", scopeClass>> \o selector
             ELSE <<".", scopeClass, " ">> \o selector
    ELSE IF HasPrefix(selector, <<":">>)
    THEN IF rootElementTag # <<>>
         THEN rootElementTag \o <<".", scopeClass>> \o selector
         ELSE <<".", scopeClass>> \o selector
    ELSE IF \/ Contains(selector, <<" ">>) \/ Contains(selector, <<">">>)
            \/ Contains(selector, <<"+">>) \/ Contains(selector, <<"~">>)
    THEN <<".", scopeClass, " ">> \o selector
    ELSE <<".", scopeClass, " ">> \o selector

\* containedScopedCSS, the body of the loop over selectorList
ContainedSelector(selector, scopeClass) == <<".", scopeClass, " ">> \o selector

\* the selectors of one block: split on commas, trimmed, the empty ones dropped
SelectorList(selectors) ==
    LET parts == Split(selectors, ",")
        trimmed == [i \in 1..Len(parts) |-> TrimSpace(parts[i])]
        keep(x) == x # <<>>
    IN  SelectSeq(trimmed, keep)

\* the blocks of a style text that the loops of scopedCSS and
\* containedScopedCSS do not skip, each as <<selectors, declarations>>
CssBlocks(css) ==
    LET blocks == Split(css, "}")
        parts == [i \in 1..Len(blocks) |-> SplitN2(blocks[i], "{")]
        keep(i) == TrimSpace(blocks[i]) # <<>> /\ Len(parts[i]) = 2
        idx == SelectSeq([i \in 1..Len(blocks) |-> i], keep)
    IN  [k \in 1..Len(idx) |-> parts[idx[k]]]

\* faulty variant: the declarations follow the selectors without a space
WriteBlockTight(scopedSelectors, declarations) ==
    Join(scopedSelectors, <<",", " ">>) \o <<"{">> \o declarations \o <<"}", "\n">>

\* one rule of the output: the selectors joined by ", ", then " {", the
\* declarations and "}\n"
WriteBlock(scopedSelectors, declarations) ==
    Join(scopedSelectors, <<",", " ">>) \o <<" ", "{">> \o declarations \o <<"}", "\n">>

RECURSIVE Concat(_)
Concat(ss) == IF ss = <<>> THEN <<>> ELSE Head(ss) \o Concat(Tail(ss))

scopedCSS(css, scopeClass, rootElementTag, rootClasses, elementType) ==
    LET blocks == CssBlocks(css)
        out(b) ==
            LET list == SelectorList(b[1]) IN
            WriteBlock([i \in 1..Len(list) |->
                          ScopedSelector(list[i], scopeClass, rootElementTag,
                                         rootClasses, elementType)], b[2])
    IN  Concat([k \in 1..Len(blocks) |-> out(blocks[k])])

containedScopedCSS(css, scopeClass) ==
    LET blocks == CssBlocks(css)
        out(b) ==
            LET list == SelectorList(b[1]) IN
            WriteBlock([i \in 1..Len(list) |-> ContainedSelector(list[i], scopeClass)],
                       b[2])
    IN  Concat([k \in 1..Len(blocks) |-> out(blocks[k])])

uniqueOpenToken == "___GO_TEMPLATE_OPEN___"
uniqueCloseToken == "___GO_TEMPLATE_CLOSE___"

\* strings.Contains(innerContent, "<")
ContainsLT(s) == \E i \in 1..Len(s) : s[i] \in {"<", "</"}

\* the position of the first '>' outside braces, or 0 (lastPos)
RECURSIVE TagEnd(_, _, _)
TagEnd(html, i, depth) ==
    IF i > Len(html) THEN 0
    ELSE IF html[i] = "{{" THEN TagEnd(html, i + 1, depth + 2)
    ELSE IF html[i] = "}}" THEN TagEnd(html, i + 1, depth - 2)
    ELSE IF html[i] = ">" /\ depth = 0 THEN i
    ELSE TagEnd(html, i + 1, depth)

\* parseFile: the scope class is added to a class attribute of the markup,
\* or a class attribute is added before the first '>'
InjectScopeClass(html, scopeClass) ==
    IF Contains(html, <<"class=", "\"">>)
    THEN ReplaceFirst(html, <<"class=", "\"">>, <<"class=", "\"", scopeClass, " ">>)
    ELSE IF Contains(html, <<"class=", "'">>)
    THEN ReplaceFirst(html, <<"class=", "'">>, <<"class=", "'", scopeClass, " ">>)
    ELSE IF Contains(html, <<"class=", "{{">>)
    THEN ReplaceFirst(html, <<"class=", "{{">>, <<"class=", "\"", scopeClass, " ", "{{">>)
    ELSE LET lastPos == TagEnd(html, 1, 0) IN
         IF lastPos # 0
         THEN SubSeq(html, 1, lastPos - 1)
              \o <<" ", "class=", "\"", scopeClass, "\"">>
              \o From(html, lastPos)
         ELSE html

\* <div class="%s" style="display:contents">%s</div>
WrapContents(html, scopeClass) ==
    <<"<", "div", " ", "class=", "\"", scopeClass, "\"", " ",
      "style=", "\"", "display:contents", "\"", ">">>
    \o html \o <<"</", "div", ">">>

\* <div class="%s">%s</div>
WrapDiv(html, scopeClass) ==
    <<"<", "div", " ", "class=", "\"", scopeClass, "\"", ">">>
    \o html \o <<"</", "div", ">">>

\* parseFile: innerContent, the text without its first tag and without the
\* closing tag at its end
InnerContent(safeContent) == anyCloseTagRegexRemove(openTagRegexRemove(safeContent))

\* no *Template: the entry of a name that is not registered
NoTemplate ==
    [Name |-> "", HTML |-> <<>>, CSS |-> <<>>, JS |-> <<>>, scopeClass |-> "",
     parses |-> TRUE]

NoAnalysis ==
    [called |-> FALSE, layoutBefore |-> NoLayout, hasTemplate |-> FALSE,
     unwrap |-> FALSE, trimmedContent |-> <<>>, hasRootElement |-> FALSE,
     isSingleElement |-> FALSE, isRootContainer |-> FALSE, rootTagName |-> <<>>,
     rootClasses |-> <<>>, css |-> <<>>, scoping |-> "none",
     elementType |-> ElementTypeNormal, scopeClass |-> "", selectors |-> <<>>,
     scopedSelectors |-> <<>>, runs |-> 0, before |-> NoTemplate]

\* the selectors that the loops of scopedCSS and containedScopedCSS rewrite
SelectorsOf(css) ==
    LET blocks == CssBlocks(css)
    IN  Concat([k \in 1..Len(blocks) |-> SelectorList(blocks[k][1])])

\* faulty variant: unwrap is not looked at
ElementTypeIgnoresUnwrap(isSingleElement, unwrap, isRootContainer) ==
    IF isSingleElement THEN ElementTypeSingle
    ELSE IF isRootContainer THEN ElementTypeContainer
    ELSE ElementTypeNormal

\* parseFile: the element type handed to scopedCSS
ElementTypeOf(isSingleElement, unwrap, isRootContainer) ==
    IF isSingleElement \/ unwrap THEN ElementTypeSingle
    ELSE IF isRootContainer THEN ElementTypeContainer
    ELSE ElementTypeNormal

\* faulty variant: a component without style is scoped as well
ScopingWithoutStyle(css, hasRootElement) ==
    IF hasRootElement THEN "scoped" ELSE "contained"

\* parseFile: no scoping without CSS, the scope class on the root element
\* when there is one, a container around the markup otherwise
ScopingOf(css, hasRootElement) ==
    IF css = <<>> THEN "none"
    ELSE IF hasRootElement THEN "scoped" ELSE "contained"

\* parseFile on the document of a component: the *Template it registers (t)
\* and its locals (an)
CompileTemplate(name, content, lay) ==
    LET scopeClass == generateScopeClass(name)
        matches == htmlRegex(content)
        hasTemplate == Len(matches) > 1
        templateAttrs == IF hasTemplate THEN Group(matches, 1) ELSE <<>>
        templateContent == IF hasTemplate THEN Group(matches, 2) ELSE <<>>
        trimmedContent == TrimSpace(templateContent)
        unwrap == unwrapRegex(templateAttrs)
        safeContent == ReplaceAll(ReplaceAll(trimmedContent, "{{", uniqueOpenToken),
                                  "}}", uniqueCloseToken)
        firstTagMatch == firstTagRegex(safeContent)
        tagged == Len(firstTagMatch) > 2
        rootTagName == IF tagged THEN Group(firstTagMatch, 1) ELSE <<>>
        classMatches == IF tagged THEN classRegex(Group(firstTagMatch, 2)) ELSE <<>>
        rootClasses == IF Len(classMatches) > 1
                       THEN Fields(Group(classMatches, 1)) ELSE <<>>
        hasRootElement == tagged /\ closeTagRegex(safeContent, rootTagName)
        innerContent == InnerContent(safeContent)
        isSingleElement == hasRootElement /\ ~ContainsLT(innerContent)
        isRootContainer == hasRootElement /\ ContainsLT(innerContent)
        cssMatches == cssRegex(content)
        css == IF hasTemplate /\ Len(cssMatches) > 2 THEN Group(cssMatches, 2) ELSE <<>>
        elementType == ElementTypeOf(isSingleElement, unwrap, isRootContainer)
        scoping == ScopingOf(css, hasRootElement)
        HTML == IF scoping = "none" THEN trimmedContent
                ELSE IF scoping = "scoped" THEN InjectScopeClass(trimmedContent, scopeClass)
                ELSE IF unwrap THEN WrapContents(trimmedContent, scopeClass)
                ELSE WrapDiv(trimmedContent, scopeClass)
        CSS == IF scoping = "none" THEN <<>>
               ELSE IF scoping = "scoped"
               THEN scopedCSS(css, scopeClass, rootTagName, rootClasses, elementType)
               ELSE containedScopedCSS(css, scopeClass)
        jsMatches == jsRegex(content)
        JS == IF Len(jsMatches) > 1 THEN Group(jsMatches, 1) ELSE <<>>
        selectors == SelectorsOf(css)
    IN  [t |-> [Name |-> name, HTML |-> HTML, CSS |-> CSS, JS |-> JS,
                scopeClass |-> scopeClass, parses |-> TRUE],
         an |-> [called |-> TRUE, layoutBefore |-> lay, hasTemplate |-> hasTemplate,
                 unwrap |-> unwrap, trimmedContent |-> trimmedContent,
                 hasRootElement |-> hasRootElement,
                 isSingleElement |-> isSingleElement,
                 isRootContainer |-> isRootContainer, rootTagName |-> rootTagName,
                 rootClasses |-> rootClasses, css |-> css, scoping |-> scoping,
                 elementType |-> elementType, scopeClass |-> scopeClass,
                 selectors |-> selectors,
                 scopedSelectors |->
                     [i \in 1..Len(selectors) |->
                        IF scoping = "scoped"
                        THEN ScopedSelector(selectors[i], scopeClass, rootTagName,
                                            rootClasses, elementType)
                        ELSE IF scoping = "contained"
                        THEN ContainedSelector(selectors[i], scopeClass)
                        ELSE <<>>],
                 runs |-> 1, before |-> NoTemplate]]

NoDoc == [name |-> "", readable |-> TRUE, content |-> <<>>]
File(name, readable, content) == [name |-> name, readable |-> readable, content |-> content]

\* parseFile, os.ReadFile fails
ReadFails ==
    /\ ~an.called
    /\ doc # NoDoc
    /\ ~doc.readable
    /\ parseErr' = ErrRead
    /\ an' = [NoAnalysis EXCEPT !.called = TRUE, !.layoutBefore = layout]
    /\ UNCHANGED <<doc, templates>>
    /\ UNCHANGED <<compiled, layout, files, li, loadPc, loadErr, layoutFound>>
    /\ UNCHANGED <<renderVars, isoVars, auxVars>>

\* parseFile on the document named as the layout: parseLayoutFile
CompileLayout ==
    /\ ~an.called
    /\ doc # NoDoc
    /\ doc.readable
    /\ doc.name = layoutName
    /\ LET r == ParseLayoutFile(doc.content, layout) IN
        /\ parseErr' = r.err
        /\ layout' = r.layout
    /\ an' = [NoAnalysis EXCEPT !.called = TRUE, !.layoutBefore = layout]
    /\ UNCHANGED <<doc, templates>>
    /\ UNCHANGED <<compiled, files, li, loadPc, loadErr, layoutFound>>
    /\ UNCHANGED <<renderVars, isoVars, auxVars>>

\* parseFile on the document of a component
CompileComponent ==
    /\ ~an.called
    /\ doc # NoDoc
    /\ doc.readable
    /\ doc.name # layoutName
    /\ LET r == CompileTemplate(doc.name, doc.content, layout) IN
        /\ templates' = (doc.name :> r.t) @@ templates
        /\ an' = r.an
    /\ parseErr' = NoErr
    /\ UNCHANGED doc
    /\ UNCHANGED <<compiled, layout, files, li, loadPc, loadErr, layoutFound>>
    /\ UNCHANGED <<renderVars, isoVars, auxVars>>

MaxCompiles == 2       \* calls of parseFile on one document

\* faulty variant: the document is compiled from what the first call registered
RecompileRegistered ==
    /\ an.called
    /\ an.runs \in 1..(MaxCompiles - 1)
    /\ doc.name \in DOMAIN templates
    /\ LET was == templates[doc.name]
           r == CompileTemplate(doc.name,
                    <<"<template", ">">> \o was.HTML \o <<"</template>", "<style", ">">>
                        \o was.CSS \o <<"</style>">>, layout)
       IN  /\ templates' = (doc.name :> r.t) @@ templates
           /\ an' = [r.an EXCEPT !.runs = an.runs + 1, !.before = was]
    /\ parseErr' = NoErr
    /\ UNCHANGED doc
    /\ UNCHANGED <<compiled, layout, files, li, loadPc, loadErr, layoutFound>>
    /\ UNCHANGED <<renderVars, isoVars, auxVars>>

\* parseFile on the document of a component that was compiled before, as in
\* a second ParseDirs over the same directory
Recompile ==
    /\ an.called
    /\ an.runs \in 1..(MaxCompiles - 1)
    /\ doc.name \in DOMAIN templates
    /\ LET was == templates[doc.name]
           r == CompileTemplate(doc.name, doc.content, layout)
       IN  /\ templates' = (doc.name :> r.t) @@ templates
           /\ an' = [r.an EXCEPT !.runs = an.runs + 1, !.before = was]
    /\ parseErr' = NoErr
    /\ UNCHANGED doc
    /\ UNCHANGED <<compiled, layout, files, li, loadPc, loadErr, layoutFound>>
    /\ UNCHANGED <<renderVars, isoVars, auxVars>>

NothingParsed == doc = NoDoc /\ an = NoAnalysis /\ parseErr = NoErr

-----------------------------------------------------------------------------
(* The documents that are compiled *)

MaxShellLen == 4       \* lexemes of a shell document
MaxSelectorLen == 2    \* lexemes of a generated selector

ShellLexemes == {"</head>", "</body>", "<p>"}
ShellTexts == UNION {[1..n -> ShellLexemes] : n \in 0..MaxShellLen}

\* the shell of an earlier load
PrevLayout == Layout(<<"<p>", StylePlaceholder, "</head>", ScriptPlaceholder, "</body>">>, TRUE)

TemplateBlock(attrs, body) ==
    <<"<template">> \o attrs \o <<">", "\n", " ">> \o body \o <<"\n", "</template>", "\n">>
StyleBlock(css) == <<"<style", ">">> \o css \o <<"</style>", "\n">>
ScriptBlock(js) == <<"<script>">> \o js \o <<"</script>", "\n">>

El(tag, attrs, inner) == <<"<", tag>> \o attrs \o <<">">> \o inner \o <<"</", tag, ">">>
Class(q, names) == <<" ", "class=", q>> \o names \o <<q>>

\* markup bodies
Bodies ==
    { El("button", <<>>, <<"{{", "x", "}}">>),
      El("button", Class("\"", <<"primary">>), <<"x">>),
      El("div", Class("\"", <<"card">>), El("h3", Class("\"", <<"title">>), <<"x">>)),
      El("div", Class("'", <<"card", " ", "primary">>), <<"x">>),
      El("div", <<" ", "class=", "{{", "x", "}}">>, <<"x">>),
      El("div", <<>>, El("span", Class("\"", <<"title">>), <<"x">>)),
      El("div", <<>>, El("b", <<>>, <<"x">>)),
      El("div", <<>>, <<"<", "span", "/", ">">>),
      El("div", <<>>, <<"x">>) \o El("div", <<>>, <<"x">>),
      <<"Hello", " ">> \o El("b", <<>>, <<"{{", "name", "}}">>) \o <<"!">>,
      <<"<", "b", "/", ">", "Other", "<", "i", "/", ">">>,
      <<"x">> }

Rule(selectors, declarations) == selectors \o <<"{", declarations, "}">>

SelectorLexemes == {".", ":", " ", ">", "card", "title", "div", "button"}
Selectors == UNION {[1..n -> SelectorLexemes] : n \in 1..MaxSelectorLen}

\* style texts: every generated selector in a rule of its own, and the
\* style texts of the examples
StyleTexts ==
    {Rule(s, "color:red") : s \in Selectors}
    \cup { Rule(<<"button">>, "color:red") \o Rule(<<".", "primary">>, "color:blue"),
           Rule(<<".", "card">>, "border:1px") \o Rule(<<".", "title">>, "font-weight:bold"),
           Rule(<<".", "card", " ", "h3">>, "margin:0"),
           Rule(<<"b">>, "font-weight:bold"),
           Rule(<<"\n", ".", "card", ",", " ", ".", "title", ",", " ", "h3", " ">>, "margin:0"),
           Rule(<<"div", ">", "h3">>, "margin:0"),
           Rule(<<"h3", "+", "h3">>, "margin:0"),
           Rule(<<"h3", "~", "h3">>, "margin:0"),
           Rule(<<"[disabled]">>, "margin:0"),
           Rule(<<"#", "id">>, "margin:0"),
           Rule(<<":", "hover">>, "margin:0"),
           Rule(<<".", "card", ":", "hover">>, "margin:0"),
           <<" ">>,
           <<"card">>,
           <<>> }

ComponentNames == {"card", "button"}

\* documents with more than one block of a type, and documents without a
\* markup block that have a style block and a script block
RepeatedBlockTexts ==
    { TemplateBlock(<<>>, El("div", Class("\"", <<"card">>), <<"x">>))
        \o TemplateBlock(<<" ", "unwrap">>, El("button", <<>>, <<"y">>))
        \o StyleBlock(Rule(<<".", "card">>, "border:1px"))
        \o StyleBlock(Rule(<<"button">>, "color:red"))
        \o ScriptBlock(<<"js">>) \o ScriptBlock(<<"js2">>),
      StyleBlock(Rule(<<"button">>, "color:red"))
        \o ScriptBlock(<<"js2">>)
        \o TemplateBlock(<<" ", "unwrap">>, El("button", <<>>, <<"y">>))
        \o TemplateBlock(<<>>, <<"x">>)
        \o StyleBlock(<<>>)
        \o ScriptBlock(<<"js">>),
      StyleBlock(Rule(<<"b">>, "font-weight:bold")) \o ScriptBlock(<<"js">>)
        \o El("b", <<>>, <<"x">>),
      StyleBlock(Rule(<<".", "card">>, "border:1px"))
        \o StyleBlock(Rule(<<"b">>, "font-weight:bold"))
        \o ScriptBlock(<<"js">>) \o ScriptBlock(<<"js2">>) }

\* a document with a markup block and a style block, one with a markup block
\* only, and one without a markup block
ComponentTexts ==
    {TemplateBlock(attrs, body) \o StyleBlock(css) \o ScriptBlock(<<"js">>) :
        attrs \in {<<>>, <<" ", "unwrap">>}, body \in Bodies, css \in StyleTexts}
    \cup {TemplateBlock(attrs, body) : attrs \in {<<>>, <<" ", "unwrap">>}, body \in Bodies}
    \cup {StyleBlock(Rule(<<"b">>, "font-weight:bold")) \o <<"x">>}
    \cup RepeatedBlockTexts

CompileDocs ==
    {File(layoutName, TRUE, text) : text \in ShellTexts}
    \cup {File(name, TRUE, text) : name \in ComponentNames, text \in ComponentTexts}
    \cup {File("card", FALSE, <<>>)}

-----------------------------------------------------------------------------
(* ExecuteIsolated *)

ErrIsoRead == "error reading template file"
ErrIsoParse == "error parsing isolated template"

\* the documents a file of the disk can hold
IsoDocs ==
    { TemplateBlock(<<" ", "unwrap">>, <<"<", "p", ">", "{{", ".", "}}", "</", "p", ">">>)
        \o StyleBlock(Rule(<<"p">>, "margin:0")),
      <<"<", "p", ">", "hi", "</", "p", ">">>,
      <<"<", "p", ">", "{{", ".", "</", "p", ">">> }

IsoFiles == {"frag.html", "list.html"}

\* a file of the disk: its content, whether it can be read, and (history) the
\* text that the last successful ExecuteIsolated call stored for it
Missing == [readable |-> FALSE, content |-> <<>>, stored |-> FALSE, text |-> <<>>]
OnDisk(content) == [readable |-> TRUE, content |-> content, stored |-> FALSE, text |-> <<>>]

\* template.Parse: an action that is opened is closed
RECURSIVE Balanced(_, _)
Balanced(text, open) ==
    IF text = <<>> THEN ~open
    ELSE IF Head(text) = "{{" THEN ~open /\ Balanced(Tail(text), TRUE)
    ELSE IF Head(text) = "}}" THEN open /\ Balanced(Tail(text), FALSE)
    ELSE Balanced(Tail(text), open)

Parses(text) == Balanced(text, FALSE)

\* Execute of a parsed template: the text with every action evaluated
RECURSIVE Render(_, _)
Render(text, open) ==
    IF text = <<>> THEN <<>>
    ELSE IF Head(text) = "{{" THEN Render(Tail(text), TRUE)
    ELSE IF Head(text) = "}}" THEN <<ValueText>> \o Render(Tail(text), FALSE)
    ELSE IF open THEN Render(Tail(text), open)
    ELSE <<Head(text)>> \o Render(Tail(text), open)

\* faulty variant: the cache is never consulted
CacheMisses(cache, filename) == FALSE

\* cachedTmpl, exists := ts.isolatedCache[filename]
CacheHas(cache, filename) == filename \in DOMAIN cache

\* ExecuteIsolated: the text that is compiled, htmlContent
IsolatedContent(content) ==
    LET matches == htmlRegex(content) IN
    IF Len(matches) > 1 THEN Group(matches, 1) ELSE content

NoIso ==
    [pc |-> "idle", filename |-> "", exists |-> FALSE, known |-> FALSE,
     read |-> FALSE, wrote |-> FALSE, content |-> <<>>, htmlContent |-> <<>>,
     cached |-> <<>>, out |-> <<>>, err |-> NoErr]

NoIsolatedCalls ==
    /\ isolatedCache = <<>>
    /\ disk = <<>>
    /\ iso = [r \in Renders |-> NoIso]

\* ExecuteIsolated is called: the cache is looked up under cacheMu.RLock
IsolatedLookup(r, filename) ==
    /\ iso[r].pc = "idle"
    /\ Idle(r)
    /\ LET exists == CacheHas(isolatedCache, filename) IN
       iso' = [iso EXCEPT ![r] =
                 [NoIso EXCEPT !.pc = IF exists THEN "cached" ELSE "read",
                               !.filename = filename,
                               !.exists = exists,
                               !.known = disk[filename].stored,
                               !.cached = IF exists THEN isolatedCache[filename]
                                          ELSE <<>>]]
    /\ UNCHANGED <<isolatedCache, disk>>
    /\ UNCHANGED <<renderVars, loadVars, compileVars, auxVars>>

\* return cachedTmpl.Execute(w, data)
IsolatedCached(r) ==
    /\ iso[r].pc = "cached"
    /\ iso' = [iso EXCEPT ![r].pc = "done",
                          ![r].out = Render(iso[r].cached, FALSE)]
    /\ UNCHANGED <<isolatedCache, disk>>
    /\ UNCHANGED <<renderVars, loadVars, compileVars, auxVars>>

\* os.ReadFile, the extraction of the markup and template.Parse
IsolatedRead(r) ==
    /\ iso[r].pc = "read"
    /\ LET file == disk[iso[r].filename]
           htmlContent == IsolatedContent(file.content)
       IN  IF ~file.readable
           THEN iso' = [iso EXCEPT ![r].pc = "done", ![r].err = ErrIsoRead]
           ELSE IF ~Parses(htmlContent)
           THEN iso' = [iso EXCEPT ![r].pc = "done", ![r].read = TRUE,
                                   ![r].content = file.content,
                                   ![r].htmlContent = htmlContent,
                                   ![r].err = ErrIsoParse]
           ELSE iso' = [iso EXCEPT ![r].pc = "store", ![r].read = TRUE,
                                   ![r].content = file.content,
                                   ![r].htmlContent = htmlContent]
    /\ UNCHANGED <<isolatedCache, disk>>
    /\ UNCHANGED <<renderVars, loadVars, compileVars, auxVars>>

\* the parsed template is added to the cache under cacheMu.Lock and executed
IsolatedStore(r) ==
    /\ iso[r].pc = "store"
    /\ isolatedCache' = (iso[r].filename :> iso[r].htmlContent) @@ isolatedCache
    /\ disk' = [disk EXCEPT ![iso[r].filename].stored = TRUE,
                            ![iso[r].filename].text = iso[r].htmlContent]
    /\ iso' = [iso EXCEPT ![r].pc = "done", ![r].wrote = TRUE,
                          ![r].out = Render(iso[r].htmlContent, FALSE)]
    /\ UNCHANGED <<renderVars, loadVars, compileVars, auxVars>>

\* ExecuteIsolated has returned to its caller
IsolatedReturn(r) ==
    /\ iso[r].pc = "done"
    /\ iso' = [iso EXCEPT ![r] = NoIso]
    /\ UNCHANGED <<isolatedCache, disk>>
    /\ UNCHANGED <<renderVars, loadVars, compileVars, auxVars>>

\* the environment rewrites or removes a file
FileChange(filename) ==
    /\ \E file \in {Missing} \cup {OnDisk(d) : d \in IsoDocs} :
          /\ file.readable # disk[filename].readable
             \/ file.content # disk[filename].content
          /\ disk' = [disk EXCEPT ![filename].readable = file.readable,
                                  ![filename].content = file.content]
    /\ UNCHANGED <<isolatedCache, iso>>
    /\ UNCHANGED <<renderVars, loadVars, compileVars, auxVars>>

-----------------------------------------------------------------------------
(* comp, param and paramOr as functions of their arguments *)

MaxArgs == 2     \* arguments of one invocation of comp
MaxDepth == 2    \* frames of the call stack param and paramOr are called with

\* the values a template hands to comp: a string, nil, the map dict builds
\* (map[string]interface{}) and a map of another type, as the data of
\* Execute can hold
Str(s) == [kind |-> "string", str |-> s, map |-> {}]
NilValue == [kind |-> "nil", str |-> "", map |-> {}]
MapValue(pairs) == [kind |-> "map[string]interface{}", str |-> "", map |-> pairs]
StringMap(pairs) == [kind |-> "map[string]string", str |-> "", map |-> pairs]

\* fmt.Sprintf("%d", i) for i >= 0
RECURSIVE IndexText(_)
IndexText(i) ==
    LET digits == <<"0", "1", "2", "3", "4", "5", "6", "7", "8", "9">> IN
    IF i < 10 THEN digits[i + 1] ELSE IndexText(i \div 10) \o digits[(i % 10) + 1]

\* faulty variant: a single map is indexed like every other argument
CompDataPositional(args) ==
    {<<IndexText(i), args[i + 1]>> : i \in 0..(Len(args) - 1)}

\* comp: the data the callee is executed with, a map given as key/value pairs
CompData(args) ==
    IF Len(args) = 1
    THEN IF args[1].kind = "map[string]interface{}"
         THEN args[1].map
         ELSE {<<"0", args[1]>>}
    ELSE {<<IndexText(i), args[i + 1]>> : i \in 0..(Len(args) - 1)}

\* param and paramOr have no assignment to compStack: the stack after the call
StackAfterRead(stack) == stack

NoFn ==
    [op |-> "none", done |-> FALSE, args |-> <<>>, data |-> {},
     stack |-> <<>>, index |-> 0, dflt |-> "", out |-> "", after |-> <<>>]

\* the call is made
FnCall(op, args, stack, index, dflt) ==
    [NoFn EXCEPT !.op = op, !.args = args, !.stack = stack, !.index = index,
                 !.dflt = dflt]

\* comp normalises its arguments
CompNormalize ==
    /\ fn.op = "comp"
    /\ ~fn.done
    /\ fn' = [fn EXCEPT !.done = TRUE, !.data = CompData(fn.args)]
    /\ UNCHANGED <<reg, lk>>
    /\ UNCHANGED <<renderVars, loadVars, compileVars, isoVars>>

\* param returns
ParamCall ==
    /\ fn.op = "param"
    /\ ~fn.done
    /\ fn' = [fn EXCEPT !.done = TRUE, !.out = Param(fn.stack, fn.index),
                        !.after = StackAfterRead(fn.stack)]
    /\ UNCHANGED <<reg, lk>>
    /\ UNCHANGED <<renderVars, loadVars, compileVars, isoVars>>

\* paramOr returns
ParamOrCall ==
    /\ fn.op = "paramOr"
    /\ ~fn.done
    /\ fn' = [fn EXCEPT !.done = TRUE,
                        !.out = ParamOr(fn.stack, fn.index, fn.dflt),
                        !.after = StackAfterRead(fn.stack)]
    /\ UNCHANGED <<reg, lk>>
    /\ UNCHANGED <<renderVars, loadVars, compileVars, isoVars>>

\* sequences of at most n elements of S
SeqUpTo(S, n) == UNION {[1..k -> S] : k \in 0..n}

ArgValues ==
    {Str("a"), NilValue, MapValue({}), MapValue({<<"title", Str("t")>>}),
     StringMap({<<"title", Str("t")>>})}

\* the frames comp pushes, with the arguments param and paramOr return
StackFrames ==
    {[Args |-> a, Name |-> "G", owner |-> 1] : a \in SeqUpTo({"a1", Nil}, MaxArgs)}

FnCalls ==
    {FnCall("comp", a, <<>>, 0, "") : a \in SeqUpTo(ArgValues, MaxArgs)}
    \cup {FnCall(op, <<>>, st, i, "dflt") :
            op \in {"param", "paramOr"}, st \in SeqUpTo(StackFrames, MaxDepth),
            i \in (-1)..MaxArgs}

-----------------------------------------------------------------------------
(* ParseDirs called from several goroutines on one TemplateSet *)

\* the component files of the directory a goroutine loads, in os.ReadDir order
RegListing == <<"a", "b">>

\* what parseFile of goroutine r compiles from its file of that name
RegTemplate(r, name) ==
    [HTML |-> <<T(name), T(IndexText(r))>>, CSS |-> "", JS |-> ""]

NoReg == [pc |-> "idle", i |-> 0]

Fatal == \E r \in Renders : reg[r].pc = "fatal"

\* the goroutines that are inside the assignment ts.templates[t.Name] = t
Writers == {r \in Renders : reg[r].pc = "writing"}

\* ParseDirs is called
RegStart(r) ==
    /\ reg[r].pc = "idle"
    /\ ~Fatal
    /\ reg' = [reg EXCEPT ![r] = [pc |-> "parse", i |-> 1]]
    /\ UNCHANGED <<fn, lk>>
    /\ UNCHANGED <<renderVars, loadVars, compileVars, isoVars>>

\* parseFile, up to the registration: the file is read and compiled
RegParse(r) ==
    /\ reg[r].pc = "parse"
    /\ ~Fatal
    /\ reg' = [reg EXCEPT ![r].pc = "assign"]
    /\ UNCHANGED <<fn, lk>>
    /\ UNCHANGED <<renderVars, loadVars, compileVars, isoVars>>

\* ts.templates[t.Name] = t begins; no mutex is taken.  When another
\* goroutine is inside the assignment the Go runtime may stop the program
\* ("concurrent map writes") or let both go on.
RegAssign(r) ==
    /\ reg[r].pc = "assign"
    /\ ~Fatal
    /\ \/ reg' = [reg EXCEPT ![r].pc = "writing"]
       \/ /\ Writers # {}
          /\ reg' = [reg EXCEPT ![r].pc = "fatal"]
    /\ UNCHANGED <<fn, lk>>
    /\ UNCHANGED <<renderVars, loadVars, compileVars, isoVars>>

\* the assignment ends: the entry is written, and parseFile returns
RegWritten(r) ==
    /\ reg[r].pc = "writing"
    /\ ~Fatal
    /\ LET name == RegListing[reg[r].i] IN
       templates' = (name :> RegTemplate(r, name)) @@ templates
    /\ reg' = [reg EXCEPT ![r] = IF reg[r].i = Len(RegListing)
                                 THEN [pc |-> "done", i |-> reg[r].i]
                                 ELSE [pc |-> "parse", i |-> reg[r].i + 1]]
    /\ UNCHANGED <<compiled, layout, files, li, loadPc, loadErr, layoutFound>>
    /\ UNCHANGED <<fn, lk>>
    /\ UNCHANGED <<renderVars, compileVars, isoVars>>

\* ParseDirs has returned and is called again
RegAgain(r) ==
    /\ reg[r].pc = "done"
    /\ ~Fatal
    /\ reg' = [reg EXCEPT ![r] = NoReg]
    /\ UNCHANGED <<fn, lk>>
    /\ UNCHANGED <<renderVars, loadVars, compileVars, isoVars>>

-----------------------------------------------------------------------------
(* The mutexes of the runtime: ts.mu and compMu *)

\* what a function of the runtime does with the mutexes, step by step
Op(op, m, name) == [op |-> op, m |-> m, name |-> name]
Lock(m) == Op("lock", m, "")
Unlock(m) == Op("unlock", m, "")
Eval(name) == Op("eval", "", name)      \* masterTmpl.ExecuteTemplate(name + ".html")
EvalLayout == Op("layout", "", "")      \* ts.layout.tmpl.Execute
Fails == Op("fail", "", "")             \* the evaluation returns an error
CompEnds == Op("endcomp", "", "")       \* comp returns to the evaluation

\* _register_template: Lock, deferred Unlock
RegisterLocks == <<Lock("mu"), Unlock("mu")>>

\* faulty variant: param returns early without releasing compMu
ParamLocksNoUnlock == <<Lock("compMu")>>

\* param and paramOr: Lock, deferred Unlock on every return
ParamLocks == <<Lock("compMu"), Unlock("compMu")>>

\* comp: the used set under ts.mu, the push under compMu, the evaluation of
\* the callee with no mutex held, the deferred pop under compMu
CompLocks(name) ==
    <<Lock("mu"), Unlock("mu"), Lock("compMu"), Unlock("compMu"), Eval(name),
      Lock("compMu"), Unlock("compMu"), CompEnds>>

\* dict takes no mutex
DictLocks(values) == IF Dict(values) = NoErr THEN <<>> ELSE <<Fails>>

InstrLocks(in, data) ==
    CASE in.op = "reg" -> RegisterLocks
      [] in.op \in {"param", "paramOr"} -> ParamLocks
      [] in.op = "comp" -> CompLocks(in.name)
      [] in.op = "compData" -> CompLocks(data)
      [] in.op = "dict" -> DictLocks(in.args)
      [] OTHER -> <<>>

\* the evaluation of a sequence of template instructions
BodyLocks(body, data) == Concat([i \in 1..Len(body) |-> InstrLocks(body[i], data)])

\* the evaluation of the component registered as name
TemplateLocks(name, data) ==
    IF Lookup(compiled, name) # NoErr THEN <<Fails>>
    ELSE BodyLocks(RegisteredHTML(templates, name), data)

\* Execute: the reset and the static scan under ts.mu, the entry's
\* evaluation, the aggregation under ts.mu, the shell's evaluation
ExecuteLocks(name) ==
    IF name \notin DOMAIN templates \/ layout = NoLayout THEN <<>>
    ELSE <<Lock("mu"), Unlock("mu"), Lock("mu"), Unlock("mu"), Eval(name),
           Lock("mu"), Unlock("mu"), EvalLayout>>

LockFrame(kind, code) == [kind |-> kind, code |-> code, ip |-> 1]

NoThread == [pc |-> "idle", st |-> <<>>, failing |-> FALSE, data |-> ""]
NoLocks == [mu |-> 0, compMu |-> 0, th |-> [r \in Renders |-> NoThread]]

\* goroutine r is inside Execute(name, data)
InExecute(name, data) ==
    [pc |-> "run", st |-> <<LockFrame("execute", ExecuteLocks(name))>>,
     failing |-> FALSE, data |-> data]

LockTop(r) == lk.th[r].st[Len(lk.th[r].st)]
LockRunning(r) == lk.th[r].pc = "run" /\ lk.th[r].st # <<>>
AtOp(r) == LockRunning(r) /\ LockTop(r).ip <= Len(LockTop(r).code)
NextOp(r) == LockTop(r).code[LockTop(r).ip]
Advance(th, r) == [th EXCEPT ![r].st[Len(th[r].st)].ip = @ + 1]

\* the evaluation on top of the stack of goroutine r ends with an error: the
\* function that started it sees the error
Unwind(th, r) ==
    LET n == Len(th[r].st)
        below == SubSeq(th[r].st, 1, n - 1)
    IN  IF below = <<>> \/ below[n - 1].kind = "execute"
        THEN [th EXCEPT ![r] = [pc |-> "done", st |-> <<>>, failing |-> FALSE,
                                data |-> th[r].data]]
        ELSE [th EXCEPT ![r].st = below, ![r].failing = TRUE]

\* mu.Lock(): the goroutine goes on when the mutex is free
LockAcquire(r) ==
    /\ AtOp(r)
    /\ NextOp(r).op = "lock"
    /\ lk[NextOp(r).m] = 0
    /\ lk' = [lk EXCEPT ![NextOp(r).m] = r, !.th = Advance(lk.th, r)]
    /\ UNCHANGED <<fn, reg>>
    /\ UNCHANGED <<renderVars, loadVars, compileVars, isoVars>>

\* mu.Unlock()
LockRelease(r) ==
    /\ AtOp(r)
    /\ NextOp(r).op = "unlock"
    /\ lk[NextOp(r).m] = r
    /\ lk' = [lk EXCEPT ![NextOp(r).m] = 0, !.th = Advance(lk.th, r)]
    /\ UNCHANGED <<fn, reg>>
    /\ UNCHANGED <<renderVars, loadVars, compileVars, isoVars>>

\* the evaluation of a component or of the shell starts
EvalEnter(r) ==
    /\ AtOp(r)
    /\ NextOp(r).op \in {"eval", "layout"}
    /\ LET code == IF NextOp(r).op = "layout"
                   THEN BodyLocks(layout.HTML, lk.th[r].data)
                   ELSE TemplateLocks(NextOp(r).name, lk.th[r].data)
       IN  lk' = [lk EXCEPT !.th =
                    [Advance(lk.th, r) EXCEPT
                        ![r].st = Append(@, LockFrame("template", code))]]
    /\ UNCHANGED <<fn, reg>>
    /\ UNCHANGED <<renderVars, loadVars, compileVars, isoVars>>

\* the evaluation stops with an error
EvalFail(r) ==
    /\ AtOp(r)
    /\ NextOp(r).op = "fail"
    /\ lk' = [lk EXCEPT !.th = Unwind(lk.th, r)]
    /\ UNCHANGED <<fn, reg>>
    /\ UNCHANGED <<renderVars, loadVars, compileVars, isoVars>>

\* comp returns after its deferred pop: with the error of its callee, which
\* ends the evaluation that called comp, or with the callee's output
CompEnd(r) ==
    /\ AtOp(r)
    /\ NextOp(r).op = "endcomp"
    /\ lk' = [lk EXCEPT !.th = IF lk.th[r].failing THEN Unwind(lk.th, r)
                                ELSE Advance(lk.th, r)]
    /\ UNCHANGED <<fn, reg>>
    /\ UNCHANGED <<renderVars, loadVars, compileVars, isoVars>>

\* an evaluation reaches its end, and Execute returns after the shell's
EvalDone(r) ==
    /\ LockRunning(r)
    /\ LockTop(r).ip > Len(LockTop(r).code)
    /\ LET n == Len(lk.th[r].st) IN
       lk' = [lk EXCEPT !.th =
                IF n = 1 \/ lk.th[r].st[n - 1].ip > Len(lk.th[r].st[n - 1].code)
                THEN [lk.th EXCEPT ![r] = [pc |-> "done", st |-> <<>>,
                                           failing |-> FALSE,
                                           data |-> lk.th[r].data]]
                ELSE [lk.th EXCEPT ![r].st = SubSeq(@, 1, n - 1)]]
    /\ UNCHANGED <<fn, reg>>
    /\ UNCHANGED <<renderVars, loadVars, compileVars, isoVars>>

NothingCalled ==
    /\ fn = NoFn
    /\ reg = [r \in Renders |-> NoReg]
    /\ lk = NoLocks

-----------------------------------------------------------------------------
(* Specifications *)

\* the TemplateSet after ParseDirs has loaded the template directory
Init ==
    /\ templates = Loaded.templates
    /\ compiled = DOMAIN Loaded.templates
    /\ layout = Loaded.layout
    /\ files = FixtureFiles
    /\ li = Len(FixtureFiles) + 1
    /\ loadPc = "done"
    /\ loadErr = NoErr
    /\ layoutFound = TRUE
    /\ usedTemplates = {}
    /\ compStack = <<>>
    /\ pc = [r \in Renders |-> "idle"]
    /\ cur = [r \in Renders |-> NoCall]
    /\ frames = [r \in Renders |-> <<>>]
    /\ ld = [r \in Renders |-> NoData]
    /\ w = [r \in Renders |-> <<>>]
    /\ res = [r \in Renders |-> NoErr]
    /\ nExec = 0
    /\ last = NoLast
    /\ reached = [r \in Renders |-> {}]
    /\ rd = [r \in Renders |-> NoRead]
    /\ ret = [r \in Renders |-> NoRet]
    /\ NothingParsed
    /\ NoIsolatedCalls
    /\ NothingCalled

\* Execute called again and again, each call after the last one returned
Next ==
    \E r \in Renders :
        \/ \E in \in Inputs :
              /\ \A q \in Renders : Idle(q)
              /\ ExecuteStart(r, in[1], in[2])
        \/ Step(r)
        \/ Returned(r)

Spec == Init /\ [][Next]_vars

\* Execute called from several goroutines at once, one call each
NextConc ==
    \E r \in Renders :
        \/ \E in \in ConcInputs : ExecuteStart(r, in[1], in[2])
        \/ Step(r)

SpecConc == Init /\ [][NextConc]_vars

\* the directory a bulk load reads: file names in the order of os.ReadDir
PoolFiles ==
    << [name |-> "a", ext |-> ".html", html |-> << T("a") >>],
       [name |-> "b", ext |-> ".html", html |-> << C("a", <<>>) >>],
       [name |-> "c", ext |-> ".txt", html |-> <<>>],
       [name |-> layoutName, ext |-> ".html", html |-> << YIELD >>],
       [name |-> "m", ext |-> ".tmpl", html |-> << T("m") >>] >>

RECURSIVE Listing(_, _, _)
Listing(S, readable, compiles) ==
    IF S = {} THEN <<>>
    ELSE LET i == CHOOSE k \in S : \A j \in S : k <= j
         IN  << Doc(PoolFiles[i].name, PoolFiles[i].ext, i \in readable,
                    i \in compiles, PoolFiles[i].html, "", "") >>
             \o Listing(S \ {i}, readable, compiles)

Listings ==
    {Listing(S, readable, compiles) :
        S \in {X \in SUBSET (1..Len(PoolFiles)) : Cardinality(X) \in 1..MaxFiles},
        readable \in SUBSET (1..Len(PoolFiles)),
        compiles \in SUBSET (1..Len(PoolFiles))}

\* a new TemplateSet, and a directory to load
InitLoad ==
    /\ templates = NoTemplates
    /\ compiled = {}
    /\ layout = NoLayout
    /\ files \in Listings
    /\ li = 0
    /\ loadPc = "idle"
    /\ loadErr = NoErr
    /\ layoutFound = FALSE
    /\ usedTemplates = {}
    /\ compStack = <<>>
    /\ pc = [r \in Renders |-> "idle"]
    /\ cur = [r \in Renders |-> NoCall]
    /\ frames = [r \in Renders |-> <<>>]
    /\ ld = [r \in Renders |-> NoData]
    /\ w = [r \in Renders |-> <<>>]
    /\ res = [r \in Renders |-> NoErr]
    /\ nExec = 0
    /\ last = NoLast
    /\ reached = [r \in Renders |-> {}]
    /\ rd = [r \in Renders |-> NoRead]
    /\ ret = [r \in Renders |-> NoRet]
    /\ NothingParsed
    /\ NoIsolatedCalls
    /\ NothingCalled

NextLoad ==
    \/ ParseDirsStart
    \/ FirstPassStep
    \/ FirstPassEnd
    \/ SecondPassStep
    \/ SecondPassEnd

SpecLoad == InitLoad /\ [][NextLoad]_vars

\* a TemplateSet, with or without a shell of an earlier load, and a document
InitCompile ==
    /\ templates = NoTemplates
    /\ compiled = {}
    /\ layout \in {NoLayout, PrevLayout}
    /\ files = <<>>
    /\ li = 0
    /\ loadPc = "idle"
    /\ loadErr = NoErr
    /\ layoutFound = FALSE
    /\ usedTemplates = {}
    /\ compStack = <<>>
    /\ pc = [r \in Renders |-> "idle"]
    /\ cur = [r \in Renders |-> NoCall]
    /\ frames = [r \in Renders |-> <<>>]
    /\ ld = [r \in Renders |-> NoData]
    /\ w = [r \in Renders |-> <<>>]
    /\ res = [r \in Renders |-> NoErr]
    /\ nExec = 0
    /\ last = NoLast
    /\ reached = [r \in Renders |-> {}]
    /\ rd = [r \in Renders |-> NoRead]
    /\ ret = [r \in Renders |-> NoRet]
    /\ doc \in CompileDocs
    /\ an = NoAnalysis
    /\ parseErr = NoErr
    /\ NoIsolatedCalls
    /\ NothingCalled

NextCompile ==
    \/ ReadFails
    \/ CompileLayout
    \/ CompileComponent

SpecCompile == InitCompile /\ [][NextCompile]_vars

\* a template directory whose shell names a component that invokes another
ShellFiles ==
    << Doc("A", ".html", TRUE, TRUE, << T("a") >>, "cA", ""),
       Doc("B", ".html", TRUE, TRUE, << C("H", <<"a1">>) >>, "cB", ""),
       Doc("H", ".html", TRUE, TRUE,
           << PO(0, "dflt"), T("h"), D(<<"key", "v">>) >>, "cH", "jH"),
       Doc("S", ".html", TRUE, TRUE, << P(0), C("H", <<>>) >>, "", "jS"),
       Doc("W", ".html", TRUE, TRUE, << T("w") >>, "cW", "jW"),
       Doc(layoutName, ".html", TRUE, TRUE,
           << CSSI, C("S", <<"a2">>), YIELD, CD, JSI >>, "", "") >>

ShellInputs == {"A", "B"} \X {"W", "A"}

ShellLoaded == LoadAll(NoTemplates, NoLayout, ShellFiles, 1)

\* the TemplateSet after ParseDirs over ShellFiles
InitShell ==
    /\ templates = ShellLoaded.templates
    /\ compiled = DOMAIN ShellLoaded.templates
    /\ layout = ShellLoaded.layout
    /\ files = ShellFiles
    /\ li = Len(ShellFiles) + 1
    /\ loadPc = "done"
    /\ loadErr = NoErr
    /\ layoutFound = TRUE
    /\ usedTemplates = {}
    /\ compStack = <<>>
    /\ pc = [r \in Renders |-> "idle"]
    /\ cur = [r \in Renders |-> NoCall]
    /\ frames = [r \in Renders |-> <<>>]
    /\ ld = [r \in Renders |-> NoData]
    /\ w = [r \in Renders |-> <<>>]
    /\ res = [r \in Renders |-> NoErr]
    /\ nExec = 0
    /\ last = NoLast
    /\ reached = [r \in Renders |-> {}]
    /\ rd = [r \in Renders |-> NoRead]
    /\ ret = [r \in Renders |-> NoRet]
    /\ NothingParsed
    /\ NoIsolatedCalls
    /\ NothingCalled

\* Execute called again and again, each call after the last one returned
NextShell ==
    \E r \in Renders :
        \/ \E in \in ShellInputs :
              /\ \A q \in Renders : Idle(q)
              /\ ExecuteStart(r, in[1], in[2])
        \/ Step(r)
        \/ Returned(r)

SpecShell == InitShell /\ [][NextShell]_vars

\* one call of comp, param or paramOr
InitFuncs ==
    /\ templates = NoTemplates
    /\ compiled = {}
    /\ layout = NoLayout
    /\ files = <<>>
    /\ li = 0
    /\ loadPc = "idle"
    /\ loadErr = NoErr
    /\ layoutFound = FALSE
    /\ usedTemplates = {}
    /\ compStack = <<>>
    /\ pc = [r \in Renders |-> "idle"]
    /\ cur = [r \in Renders |-> NoCall]
    /\ frames = [r \in Renders |-> <<>>]
    /\ ld = [r \in Renders |-> NoData]
    /\ w = [r \in Renders |-> <<>>]
    /\ res = [r \in Renders |-> NoErr]
    /\ nExec = 0
    /\ last = NoLast
    /\ reached = [r \in Renders |-> {}]
    /\ rd = [r \in Renders |-> NoRead]
    /\ ret = [r \in Renders |-> NoRet]
    /\ NothingParsed
    /\ NoIsolatedCalls
    /\ fn \in FnCalls
    /\ reg = [r \in Renders |-> NoReg]
    /\ lk = NoLocks

NextFuncs ==
    \/ CompNormalize
    \/ ParamCall
    \/ ParamOrCall

SpecFuncs == InitFuncs /\ [][NextFuncs]_vars

\* bulk loads on a new TemplateSet
InitReg ==
    /\ templates = NoTemplates
    /\ compiled = {}
    /\ layout = NoLayout
    /\ files = <<>>
    /\ li = 0
    /\ loadPc = "idle"
    /\ loadErr = NoErr
    /\ layoutFound = FALSE
    /\ usedTemplates = {}
    /\ compStack = <<>>
    /\ pc = [r \in Renders |-> "idle"]
    /\ cur = [r \in Renders |-> NoCall]
    /\ frames = [r \in Renders |-> <<>>]
    /\ ld = [r \in Renders |-> NoData]
    /\ w = [r \in Renders |-> <<>>]
    /\ res = [r \in Renders |-> NoErr]
    /\ nExec = 0
    /\ last = NoLast
    /\ reached = [r \in Renders |-> {}]
    /\ rd = [r \in Renders |-> NoRead]
    /\ ret = [r \in Renders |-> NoRet]
    /\ NothingParsed
    /\ NoIsolatedCalls
    /\ NothingCalled

NextReg ==
    \E r \in Renders :
        \/ RegStart(r)
        \/ RegParse(r)
        \/ RegAssign(r)
        \/ RegWritten(r)
        \/ RegAgain(r)

SpecReg == InitReg /\ [][NextReg]_vars

\* the Execute calls that run at the same time, as (name, Widget of the data)
LockInputs == {<<"F", "W">>, <<"K", "W">>, <<"Zz", "W">>}

\* the TemplateSet after ParseDirs, every goroutine inside a call of Execute
InitLocks ==
    /\ templates = Loaded.templates
    /\ compiled = DOMAIN Loaded.templates
    /\ layout = Loaded.layout
    /\ files = FixtureFiles
    /\ li = Len(FixtureFiles) + 1
    /\ loadPc = "done"
    /\ loadErr = NoErr
    /\ layoutFound = TRUE
    /\ usedTemplates = {}
    /\ compStack = <<>>
    /\ pc = [r \in Renders |-> "idle"]
    /\ cur = [r \in Renders |-> NoCall]
    /\ frames = [r \in Renders |-> <<>>]
    /\ ld = [r \in Renders |-> NoData]
    /\ w = [r \in Renders |-> <<>>]
    /\ res = [r \in Renders |-> NoErr]
    /\ nExec = 0
    /\ last = NoLast
    /\ reached = [r \in Renders |-> {}]
    /\ rd = [r \in Renders |-> NoRead]
    /\ ret = [r \in Renders |-> NoRet]
    /\ NothingParsed
    /\ NoIsolatedCalls
    /\ fn = NoFn
    /\ reg = [r \in Renders |-> NoReg]
    /\ \E calls \in [Renders -> LockInputs] :
          lk = [mu |-> 0, compMu |-> 0,
                th |-> [r \in Renders |-> InExecute(calls[r][1], calls[r][2])]]

NextLocks ==
    \E r \in Renders :
        \/ LockAcquire(r)
        \/ LockRelease(r)
        \/ EvalEnter(r)
        \/ EvalFail(r)
        \/ CompEnd(r)
        \/ EvalDone(r)

\* a goroutine that can take a step is scheduled sooner or later
SpecLocks == InitLocks /\ [][NextLocks]_vars /\ WF_vars(NextLocks)

\* parseFile on one document, called again on the same document
NextRecompile ==
    \/ NextCompile
    \/ Recompile

SpecRecompile == InitCompile /\ [][NextRecompile]_vars

\* the inputs of the Execute calls made between isolated renders
IsoInputs == {<<"F", "W">>, <<"K", "W">>}

\* the TemplateSet after ParseDirs, and the files of the fragments
InitIso ==
    /\ templates = Loaded.templates
    /\ compiled = DOMAIN Loaded.templates
    /\ layout = Loaded.layout
    /\ files = FixtureFiles
    /\ li = Len(FixtureFiles) + 1
    /\ loadPc = "done"
    /\ loadErr = NoErr
    /\ layoutFound = TRUE
    /\ usedTemplates = {}
    /\ compStack = <<>>
    /\ pc = [r \in Renders |-> "idle"]
    /\ cur = [r \in Renders |-> NoCall]
    /\ frames = [r \in Renders |-> <<>>]
    /\ ld = [r \in Renders |-> NoData]
    /\ w = [r \in Renders |-> <<>>]
    /\ res = [r \in Renders |-> NoErr]
    /\ nExec = 0
    /\ last = NoLast
    /\ reached = [r \in Renders |-> {}]
    /\ rd = [r \in Renders |-> NoRead]
    /\ ret = [r \in Renders |-> NoRet]
    /\ NothingParsed
    /\ isolatedCache = <<>>
    /\ disk \in [IsoFiles -> {Missing} \cup {OnDisk(d) : d \in IsoDocs}]
    /\ iso = [r \in Renders |-> NoIso]
    /\ NothingCalled

\* ExecuteIsolated called from several goroutines, Execute in between, and
\* the files changing.  Execute reads no file, so a file that changes while
\* Execute runs is taken to change before it starts or after it returns.
NextIso ==
    \/ \E r \in Renders, filename \in IsoFiles : IsolatedLookup(r, filename)
    \/ \E r \in Renders : IsolatedCached(r)
    \/ \E r \in Renders : IsolatedRead(r)
    \/ \E r \in Renders : IsolatedStore(r)
    \/ \E r \in Renders : IsolatedReturn(r)
    \/ \E filename \in IsoFiles :
          /\ \A q \in Renders : Idle(q)
          /\ FileChange(filename)
    \/ \E r \in Renders, in \in IsoInputs :
          /\ \A q \in Renders : Idle(q) /\ iso[q].pc = "idle"
          /\ nExec = 0
          /\ isolatedCache # <<>>
          /\ ExecuteStart(r, in[1], in[2])
    \/ \E r \in Renders : Step(r)
    \/ \E r \in Renders : Returned(r)

SpecIso == InitIso /\ [][NextIso]_vars

-----------------------------------------------------------------------------
(* Claims about the composition runtime *)

Failed(x) == x \notin {NoErr, Running, Ok}

\* C1: within one render, when comp returns - after a successful nested
\* evaluation or after a failed one - the depth of the call stack equals the
\* depth immediately before that invocation pushed its frame.
C1_CompBalanced ==
    \A r \in Renders : ret[r].n = 1 => ret[r].after = ret[r].before

\* a nested invocation (depth 1 before it) has returned on its failure path
C1_Witness ==
    \E r \in Renders : ret[r].n = 1 /\ Failed(ret[r].err) /\ ret[r].before = 1

\* C2: in a single render every param/paramOr read returns what the arguments of
\* the enclosing invocation give (the sibling's and the caller's never show), and
\* a read made in the caller after its callee returned sees the caller's frame
\* again, or the empty-stack result when the caller is the entry component.
C2_ReadsEnclosingFrame ==
    \A r \in Renders : rd[r].n = 1 => rd[r].got = rd[r].want

\* F, invoked by E with "a7", reads its own argument after invoking G twice
C2_Witness ==
    \E r \in Renders : rd[r].n = 1 /\ rd[r].in = "F" /\ rd[r].got = "a7"

\* C3: with Execute calls interleaved, a read never returns an argument pushed by
\* another render and the pop of an invocation never removes a frame pushed by
\* another render.
C3_StackPerRender ==
    \A r \in Renders :
        /\ rd[r].n = 1 => rd[r].from \in {0, r}
        /\ ret[r].n = 1 => ret[r].popped \in {0, r}

Styles(names) == {templates[n].CSS : n \in names} \ {""}
Scripts(names) == {templates[n].JS : n \in names} \ {""}

\* C4: with Execute calls interleaved, the payload a render aggregates holds
\* exactly the registered components that this render itself marked (those it
\* reached and those the shell names), no more and no less.
C4_UsedSetPerRender ==
    \A r \in Renders :
        (pc[r] = "layout" \/ res[r] = Ok) =>
            /\ Range(ld[r].CSS) = Styles(reached[r] \cap DOMAIN templates)
            /\ Range(ld[r].JS) = Scripts(reached[r] \cap DOMAIN templates)

\* the components a registered component invokes by name
Callees(tpl, n) ==
    IF n \in DOMAIN tpl
    THEN {tpl[n].HTML[i].name : i \in {j \in 1..Len(tpl[n].HTML) : tpl[n].HTML[j].op = "comp"}}
    ELSE {}

RECURSIVE ReachFrom(_, _)
ReachFrom(tpl, S) ==
    LET more == S \cup UNION {Callees(tpl, n) : n \in S}
    IN  IF more = S THEN S ELSE ReachFrom(tpl, more)

\* C5: a render run alone aggregates the styles and scripts of exactly the
\* registered components reachable from its entry (E, F and G for entry E)
\* together with those the shell names, and nothing of an unreached one (H).
C5_AggregatesReached ==
    \A r \in Renders :
        (pc[r] = "layout" \/ res[r] = Ok) =>
            LET want == (ReachFrom(templates, {cur[r].name}) \cup ShellRefs(layout))
                            \cap DOMAIN templates
            IN  /\ Range(ld[r].CSS) = Styles(want)
                /\ Range(ld[r].JS) = Scripts(want)
                /\ Len(ld[r].CSS) = Cardinality(Styles(want))
                /\ Len(ld[r].JS) = Cardinality(Scripts(want))
                /\ cur[r].name = "E" => want = {"E", "F", "G", "S"}

C5_Witness ==
    \E r \in Renders :
        /\ res[r] = Ok
        /\ cur[r].name = "E"
        /\ "cH" \notin Range(w[r])
        /\ {"cE", "cG", "jF", "jS"} \subseteq Range(w[r])

\* C6: two renders of the same entry with the same data produce the same
\* aggregated style text and the same aggregated script text.
C6_SameOrder ==
    \A r \in Renders :
        (res[r] = Ok /\ last.res = Ok /\ cur[r].name = last.name
            /\ cur[r].data = last.data) =>
            /\ ld[r].CSS = last.css
            /\ ld[r].JS = last.js

\* C7: when the evaluation of a nested component fails, the error it failed with
\* goes up to the caller of comp and is what Execute returns; and the render
\* called after it starts with an empty call stack and an empty used-set.
C7_FailureLeavesNothing ==
    \A r \in Renders :
        /\ (ret[r].n = 1 /\ Failed(ret[r].err)) =>
              IF pc[r] = "done" THEN res[r] = ret[r].err
              ELSE Top(r).st = "pop" /\ Top(r).err = ret[r].err
        /\ pc[r] = "scan" => compStack = <<>> /\ usedTemplates = {}

\* a render starts after the render of K failed inside the nested N
C7_Witness ==
    \E r \in Renders :
        /\ pc[r] = "scan"
        /\ cur[r].name # "K"
        /\ last.name = "K"
        /\ last.res = ErrDictOdd

\* C8: when Execute returns an error, nothing was written to the writer.
C8_NoPartialOutput ==
    \A r \in Renders : (pc[r] = "done" /\ Failed(res[r])) => w[r] = <<>>

\* the composition error the evaluation of an input runs into, if any
CompositionError(name, data) ==
    CASE name = "K" -> ErrDictOdd
      [] name = "M" -> ErrUndefined
      [] name = "Q" -> ErrDictKey
      [] name \in {"E", "F"} /\ data \notin DOMAIN templates -> ErrUndefined
      [] OTHER -> NoErr

\* C9: an unregistered component name, an odd number of dict arguments or a
\* dict key that is not a string makes the Execute call return that error, and
\* no other call: what an Execute call returns depends on its own input only.
C9_CompositionError ==
    \A r \in Renders :
        (pc[r] = "done" /\ cur[r].name \in DOMAIN templates) =>
            res[r] = IF CompositionError(cur[r].name, cur[r].data) = NoErr
                     THEN Ok
                     ELSE CompositionError(cur[r].name, cur[r].data)

\* a render succeeds after another one was aborted by a composition error
C9_Witness ==
    \E r \in Renders :
        /\ last.res = ErrDictKey
        /\ pc[r] = "done" /\ res[r] = Ok

-----------------------------------------------------------------------------
(* Claims about the bulk load *)

IsTemplateFile(f) == f.ext \in TemplateExts
IsComponent(f) == IsTemplateFile(f) /\ f.name # layoutName

\* the first document of the listing that cannot be read, or 0
FirstUnreadable(fs) ==
    IF \E i \in 1..Len(fs) : IsTemplateFile(fs[i]) /\ ~fs[i].readable
    THEN CHOOSE i \in 1..Len(fs) :
            /\ IsTemplateFile(fs[i]) /\ ~fs[i].readable
            /\ \A j \in 1..(i - 1) : ~IsTemplateFile(fs[j]) \/ fs[j].readable
    ELSE 0

\* C10 as stated: when the load returns a source error, the sibling documents
\* that can be read and compiled are compiled and registered all the same.
C10_SiblingsStillLoaded ==
    (loadPc = "done" /\ loadErr \in {ErrRead, ErrCompile}) =>
        \A i \in 1..Len(files) :
            (IsComponent(files[i]) /\ files[i].readable /\ files[i].compiles) =>
                files[i].name \in DOMAIN templates /\ files[i].name \in compiled

\* C10, amended: a document that cannot be read ends the bulk load at that
\* document: ParseDirs returns the error at once, the components listed before
\* it stay registered, the documents listed after it are neither registered
\* nor compiled, and nothing is compiled at all.  A component that does not
\* compile ends the second pass: only components that compile are compiled.
C10_SourceErrorEndsLoad ==
    loadPc = "done" =>
        /\ FirstUnreadable(files) # 0 =>
              /\ loadErr = ErrRead
              /\ li = FirstUnreadable(files)
              /\ DOMAIN templates =
                    {files[j].name : j \in {k \in 1..(li - 1) : IsComponent(files[k])}}
              /\ compiled = {}
        /\ loadErr = ErrRead => FirstUnreadable(files) # 0
        /\ loadErr = ErrCompile =>
              /\ \A n \in compiled : templates[n].parses
              /\ \/ \E n \in DOMAIN templates \ compiled : ~templates[n].parses
                 \/ ~layout.parses

\* the load stopped at an unreadable document between two readable components
C10_Witness ==
    /\ loadPc = "done"
    /\ loadErr = ErrRead
    /\ li = 2
    /\ Len(files) = 3
    /\ IsComponent(files[1]) /\ files[1].name \in DOMAIN templates
    /\ IsComponent(files[3]) /\ files[3].readable /\ files[3].compiles
    /\ files[3].name \notin DOMAIN templates

-----------------------------------------------------------------------------
(* Claims about the component compiler *)

\* parseFile has returned from parseLayoutFile
ShellParsed == an.called /\ doc.readable /\ doc.name = layoutName

\* the text without the lexeme t
Without(s, t) == LET keep(x) == x # t IN SelectSeq(s, keep)

\* C11: compiling a shell document that lacks </head> or lacks </body> fails
\* and leaves the shell of the registry as it was; when both anchors are there
\* the style placeholder stands immediately before </head>, the script
\* placeholder immediately before </body>, and the rest of the text is the
\* document's.
C11_ShellAnchors ==
    ShellParsed =>
        IF Contains(doc.content, <<"</head>">>) /\ Contains(doc.content, <<"</body>">>)
        THEN /\ parseErr = NoErr
             /\ ~layout.nil
             /\ LET html == layout.HTML
                    s == Index(html, <<StylePlaceholder>>)
                    j == Index(html, <<ScriptPlaceholder>>)
                IN  /\ s # 0 /\ s < Len(html) /\ html[s + 1] = "</head>"
                    /\ j # 0 /\ j < Len(html) /\ html[j + 1] = "</body>"
                    /\ Len(html) = Len(doc.content) + 2
                    /\ Without(Without(html, StylePlaceholder), ScriptPlaceholder)
                         = doc.content
        ELSE /\ parseErr \in {ErrNoHead, ErrNoBody}
             /\ layout = an.layoutBefore

\* C11 happens: a shell document with </head> and without </body> was
\* refused while an earlier shell was installed
C11_Witness ==
    /\ ShellParsed
    /\ Contains(doc.content, <<"</head>">>)
    /\ ~Contains(doc.content, <<"</body>">>)
    /\ parseErr = ErrNoBody
    /\ layout = PrevLayout

\* parseFile has returned from compiling a component
ComponentParsed == an.called /\ doc.readable /\ doc.name # layoutName

\* the lexemes of a selector that are not names
Punctuation == {".", ":", " ", "\n", ",", ">", "+", "~", "#", "{", "}"}

\* a class selector .name, and a selector that starts with a colon
IsClassSelector(sel) == Len(sel) = 2 /\ sel[1] = "." /\ sel[2] \notin Punctuation
IsPseudoSelector(sel) == Len(sel) >= 2 /\ sel[1] = ":"

HasCombinator(sel) == \E i \in 1..Len(sel) : sel[i] \in {" ", ">", "+", "~"}
IsOtherSimple(sel) ==
    /\ ~HasCombinator(sel)
    /\ sel # an.rootTagName
    /\ sel[1] \notin {".", ":"}

\* C13: under any root kind, a selector with a combinator (descendant space,
\* >, +, ~) and any other simple selector (element other than the root tag,
\* attribute, id) is rewritten to the scope class, one space, and the
\* selector unchanged.
C13_CombinatorPrefixed ==
    (ComponentParsed /\ an.scoping = "scoped") =>
        \A i \in 1..Len(an.selectors) :
            (HasCombinator(an.selectors[i]) \/ IsOtherSimple(an.selectors[i])) =>
                an.scopedSelectors[i] = <<".", an.scopeClass, " ">> \o an.selectors[i]

\* the selectors equal to the root tag become tag.scopeClass and the
\* selectors that start with a colon become rootTag.scopeClass:name
RootAndPseudoRewritten ==
    \A i \in 1..Len(an.selectors) :
        /\ an.selectors[i] = an.rootTagName =>
               an.scopedSelectors[i] = an.rootTagName \o <<".", an.scopeClass>>
        /\ IsPseudoSelector(an.selectors[i]) =>
               an.scopedSelectors[i]
                   = an.rootTagName \o <<".", an.scopeClass>> \o an.selectors[i]

\* the positions of the style text where a declaration block opens
BlockOpenings(css) == {p \in 1..Len(css) : css[p] = "{"}

\* C14 as stated: root tag and pseudo-class selectors are rewritten (first
\* match wins) and every rewritten selector is attached to its declaration
\* block without white space before the opening brace.
C14_NoSpaceBeforeBrace ==
    (ComponentParsed /\ an.scoping = "scoped") =>
        /\ RootAndPseudoRewritten
        /\ \A p \in BlockOpenings(templates[doc.name].CSS) :
               p > 1 /\ templates[doc.name].CSS[p - 1] \notin Spaces

\* C14 amended: root tag and pseudo-class selectors are rewritten (first
\* match wins), and the rewritten selectors of a rule are followed by one
\* space, the opening brace, the declarations, the closing brace and a new
\* line: button{color:red}.primary{color:blue} under the Single root button
\* gives "button.s-ce50a0 {color:red}\n.s-ce50a0.primary {color:blue}\n".
C14_RootTagAndPseudo ==
    (ComponentParsed /\ an.scoping = "scoped") =>
        LET css == templates[doc.name].CSS IN
        /\ RootAndPseudoRewritten
        /\ \A p \in BlockOpenings(css) :
               /\ p > 1 /\ css[p - 1] = " "
               /\ (p > 2 /\ an.selectors # <<>>) => css[p - 2] \notin Spaces
        /\ (/\ an.css = Rule(<<"button">>, "color:red")
                        \o Rule(<<".", "primary">>, "color:blue")
            /\ an.rootTagName = <<"button">>
            /\ an.elementType = ElementTypeSingle)
           => css = <<"button", ".", an.scopeClass, " ", "{", "color:red", "}", "\n",
                      ".", an.scopeClass, ".", "primary", " ", "{", "color:blue",
                      "}", "\n">>

\* C14 happens: the Single root button with the style text
\* button{color:red}.primary{color:blue}
C14_Witness ==
    /\ ComponentParsed
    /\ an.scoping = "scoped"
    /\ an.rootTagName = <<"button">>
    /\ an.elementType = ElementTypeSingle
    /\ ~an.unwrap
    /\ an.selectors = << <<"button">>, <<".", "primary">> >>
    /\ an.scopedSelectors = << <<"button", ".", an.scopeClass>>,
                               <<".", an.scopeClass, ".", "primary">> >>

\* where the element that opens the markup is closed, or 0 when the markup
\* does not open with an element that has a closing tag: a tag closed by />
\* has no content, and text outside every element ends the search
RECURSIVE RootEnd(_, _, _)
RootEnd(s, i, depth) ==
    IF i > Len(s) THEN 0
    ELSE IF s[i] = "<"
    THEN LET j == IndexFrom(s, <<">">>, i + 1) IN
         IF j = 0 THEN 0
         ELSE IF s[j - 1] = "/"
              THEN IF depth = 0 THEN 0 ELSE RootEnd(s, j + 1, depth)
              ELSE RootEnd(s, j + 1, depth + 1)
    ELSE IF s[i] = "</"
    THEN LET j == IndexFrom(s, <<">">>, i + 1) IN
         IF j = 0 \/ depth = 0 THEN 0
         ELSE IF depth = 1 THEN j
         ELSE RootEnd(s, j + 1, depth - 1)
    ELSE IF depth = 0 THEN 0
    ELSE RootEnd(s, i + 1, depth)

\* the markup is one root element: it opens with a tag whose own closing tag
\* ends it
HasSingleRoot(body) == body # <<>> /\ RootEnd(body, 1, 0) = Len(body)

\* C15: when the markup has no single root element, the template block
\* carries unwrap and there is style text, the trimmed markup body is wrapped
\* in one div with the scope class and display:contents, and every selector of
\* the style text, whatever its shape, becomes ".scopeClass selector".
C15_UnwrapWithoutRoot ==
    (ComponentParsed /\ an.hasTemplate /\ ~HasSingleRoot(an.trimmedContent)
       /\ an.unwrap /\ an.css # <<>>) =>
        /\ templates[doc.name].HTML
             = <<"<", "div", " ", "class=", "\"", an.scopeClass, "\"", " ",
                 "style=", "\"", "display:contents", "\"", ">">>
               \o an.trimmedContent \o <<"</", "div", ">">>
        /\ \A i \in 1..Len(an.selectors) :
             /\ an.scopedSelectors[i] = <<".", an.scopeClass, " ">> \o an.selectors[i]
             /\ Contains(templates[doc.name].CSS, an.scopedSelectors[i])

\* C15 where the analysis itself finds no root element
C15_WhenNoRootFound ==
    (ComponentParsed /\ an.hasTemplate /\ ~an.hasRootElement
       /\ an.unwrap /\ an.css # <<>>) =>
        /\ templates[doc.name].HTML
             = <<"<", "div", " ", "class=", "\"", an.scopeClass, "\"", " ",
                 "style=", "\"", "display:contents", "\"", ">">>
               \o an.trimmedContent \o <<"</", "div", ">">>
        /\ \A i \in 1..Len(an.selectors) :
             an.scopedSelectors[i] = <<".", an.scopeClass, " ">> \o an.selectors[i]

\* C16: when the markup has multiple top-level nodes (no single root element)
\* and unwrap was not requested, the registered markup is the trimmed body
\* inside one div that carries the scope class.
C16_AlwaysWrapped ==
    (ComponentParsed /\ an.hasTemplate /\ ~HasSingleRoot(an.trimmedContent)
       /\ ~an.unwrap) =>
        templates[doc.name].HTML
          = <<"<", "div", " ", "class=", "\"", an.scopeClass, "\"", ">">>
            \o an.trimmedContent \o <<"</", "div", ">">>

\* the content strictly between the opening tag and the closing tag of the
\* root element holds a further tag
InnerHasMarkers(body) ==
    LET j == Index(body, <<">">>)
        k == RootEnd(body, 1, 0)
        inner == SubSeq(body, j + 1, k - 3)
    IN  \E i \in 1..Len(inner) : inner[i] \in {"<", "</"}

\* C17: the root kind is Single exactly when the trimmed body is one root
\* element without further element markers inside, Container exactly when it
\* is one root element with further markers inside, and Normal exactly when
\* the body has no single root element.
C17_RootKind ==
    (ComponentParsed /\ an.hasTemplate) =>
        LET body == an.trimmedContent IN
        /\ an.isSingleElement <=> (HasSingleRoot(body) /\ ~InnerHasMarkers(body))
        /\ an.isRootContainer <=> (HasSingleRoot(body) /\ InnerHasMarkers(body))
        /\ (~an.isSingleElement /\ ~an.isRootContainer) <=> ~HasSingleRoot(body)

\* the opening tag of the root element of a markup text
RootTag(html) == SubSeq(html, 1, Index(html, <<">">>))
AfterRootTag(html) == From(html, Index(html, <<">">>) + 1)

\* the opening tag of the root with the scope class in its class attribute,
\* or with a new class attribute before its '>'
RootTagScoped(tag, scopeClass) ==
    IF Contains(tag, <<"class=", "\"">>)
    THEN ReplaceFirst(tag, <<"class=", "\"">>, <<"class=", "\"", scopeClass, " ">>)
    ELSE IF Contains(tag, <<"class=", "'">>)
    THEN ReplaceFirst(tag, <<"class=", "'">>, <<"class=", "'", scopeClass, " ">>)
    ELSE IF Contains(tag, <<"class=", "{{">>)
    THEN LET i == Index(tag, <<"class=">>)
             k == IndexFrom(tag, <<"}}">>, i)
         IN  SubSeq(tag, 1, i) \o <<"\"", scopeClass, " ">>
             \o SubSeq(tag, i + 1, k) \o <<"\"">> \o From(tag, k + 1)
    ELSE Front(tag) \o <<" ", "class=", "\"", scopeClass, "\"", ">">>

\* C18: when a component with a root element and style text is compiled, the
\* scope class is added to the opening tag of the root element, into its
\* class attribute when it has one and as a new class attribute before its
\* '>' otherwise, and the rest of the markup is the trimmed body's.
C18_ScopeClassOnRoot ==
    (ComponentParsed /\ an.scoping = "scoped") =>
        LET html == templates[doc.name].HTML IN
        /\ RootTag(html) = RootTagScoped(RootTag(an.trimmedContent), an.scopeClass)
        /\ AfterRootTag(html) = AfterRootTag(an.trimmedContent)

-----------------------------------------------------------------------------
(* Claims about ExecuteIsolated *)

\* an ExecuteIsolated call of goroutine r that has read its file
IsolatedCompiled(r) == iso[r].pc \in {"store", "done"} /\ iso[r].read

\* the markup block of a document: the body of its template block when it
\* has one, else the whole document
MarkupBlock(content) ==
    LET matches == htmlRegex(content) IN
    IF Len(matches) > 1 THEN Group(matches, 2) ELSE content

\* C19: an isolated render compiles and renders the body of the document's
\* template block when the document has one, and the whole document when it
\* has none.
C19_MarkupBlockOnly ==
    \A r \in Renders :
        IsolatedCompiled(r) =>
            /\ iso[r].htmlContent = MarkupBlock(iso[r].content)
            /\ iso[r].wrote => iso[r].out = Render(MarkupBlock(iso[r].content), FALSE)

\* the files for which a compiled template has been stored
StoredFiles == {f \in IsoFiles : disk[f].stored}

\* C20: once a call of ExecuteIsolated has compiled and stored a file, every
\* call for that file that starts later finds the entry, neither reads nor
\* compiles, and renders the cached text; a call whose read or parse failed
\* has written nothing; the cache holds exactly the texts the successful
\* calls stored, whatever Execute and the other calls do.
C20_IsolatedCache ==
    /\ \A r \in Renders :
          (iso[r].pc # "idle" /\ iso[r].known) =>
              /\ iso[r].exists
              /\ ~iso[r].read /\ ~iso[r].wrote
              /\ Parses(iso[r].cached)
              /\ iso[r].pc = "done" =>
                    /\ iso[r].err = NoErr
                    /\ iso[r].out = Render(iso[r].cached, FALSE)
    /\ \A r \in Renders :
          iso[r].err \in {ErrIsoRead, ErrIsoParse} => ~iso[r].wrote
    /\ DOMAIN isolatedCache = StoredFiles
    /\ \A f \in StoredFiles : isolatedCache[f] = disk[f].text

\* a call served from the cache after its file was removed, while another
\* goroutine is inside Execute
C20_Witness ==
    \E r, q \in Renders :
        /\ iso[r].pc = "done" /\ iso[r].known /\ iso[r].exists
        /\ ~disk[iso[r].filename].readable
        /\ iso[r].out # <<>>
        /\ ~Idle(q)

-----------------------------------------------------------------------------
(* Claims about recompilation, block extraction and unscoped components *)

\* the number of times lexeme x stands in text s
Count(s, x) == Cardinality({i \in 1..Len(s) : s[i] = x})

Recompiled == an.runs >= 2 /\ doc.name \in DOMAIN templates

Pos(s, x) == {i \in 1..Len(s) : s[i] = x}

\* the positions of lexeme x in text s after position i
PosAfter(s, x, i) == {k \in Pos(s, x) : k > i}

Least(S) == CHOOSE x \in S : \A y \in S : x <= y

\* the body of the first block of a type: from the end of the first opening
\* tag to the first closing tag after it; <<"none">> when there is no block
FirstBody(s, open, openEnd, close) ==
    IF Pos(s, open) = {} THEN <<"none">>
    ELSE LET i == Least(Pos(s, open))
             j == IF open = openEnd THEN i
                  ELSE IF PosAfter(s, openEnd, i) = {} THEN 0
                  ELSE Least(PosAfter(s, openEnd, i))
         IN  IF j = 0 \/ PosAfter(s, close, j) = {} THEN <<"none">>
             ELSE SubSeq(s, j + 1, Least(PosAfter(s, close, j)) - 1)

\* the number of blocks of a type in a document
Blocks(s, open) == Cardinality(Pos(s, open))

\* C22: of each block type the first block of the document is the one used;
\* a document without a markup block is registered with empty markup and
\* empty style and is not scoped, whatever style block it has.
C22_FirstBlocksOnly ==
    ComponentParsed =>
        LET t == templates[doc.name]
            markup == FirstBody(doc.content, "<template", ">", "</template>")
            style == FirstBody(doc.content, "<style", ">", "</style>")
            script == FirstBody(doc.content, "<script>", "<script>", "</script>")
        IN  /\ an.hasTemplate = (markup # <<"none">>)
            /\ an.hasTemplate =>
                  /\ an.trimmedContent = TrimSpace(markup)
                  /\ an.css = IF style = <<"none">> THEN <<>> ELSE style
            /\ t.JS = IF script = <<"none">> THEN <<>> ELSE script
            /\ ~an.hasTemplate =>
                  /\ t.HTML = <<>>
                  /\ t.CSS = <<>>
                  /\ an.scoping = "none"

\* a document with two blocks of every type has been compiled
C22_Witness ==
    /\ ComponentParsed
    /\ Blocks(doc.content, "<template") = 2
    /\ Blocks(doc.content, "<style") = 2
    /\ Blocks(doc.content, "<script>") = 2
    /\ templates[doc.name].CSS # <<>>

\* a document with a style block and no markup block has been compiled
C22_WitnessInert ==
    /\ ComponentParsed
    /\ Blocks(doc.content, "<template") = 0
    /\ Blocks(doc.content, "<style") > 0
    /\ templates[doc.name].JS # <<>>

\* C29: with unwrap on the template block and a root element in the markup,
\* the component is scoped as a Single root: every class selector becomes
\* .scopeClass.name without a space, also for a Container root and a class
\* that is not the root's, and no element is added to the markup.
C29_UnwrapScopesAsSingle ==
    (/\ ComponentParsed
     /\ an.unwrap
     /\ an.css # <<>>
     /\ HasSingleRoot(an.trimmedContent)) =>
        LET t == templates[doc.name] IN
        /\ an.scoping = "scoped"
        /\ an.elementType = ElementTypeSingle
        /\ \A i \in 1..Len(an.selectors) :
              IsClassSelector(an.selectors[i]) =>
                  an.scopedSelectors[i] = <<".", an.scopeClass>> \o an.selectors[i]
        /\ Count(t.HTML, "<") = Count(an.trimmedContent, "<")
        /\ Count(t.HTML, "</") = Count(an.trimmedContent, "</")

\* an unwrap component with a Container root and a selector of a class that
\* the root does not have
C29_Witness ==
    /\ ComponentParsed
    /\ an.unwrap
    /\ an.isRootContainer
    /\ HasSingleRoot(an.trimmedContent)
    /\ \E i \in 1..Len(an.selectors) :
          /\ IsClassSelector(an.selectors[i])
          /\ \A k \in 1..Len(an.rootClasses) :
                an.rootClasses[k] # Tail(an.selectors[i])
          /\ an.scopedSelectors[i] = <<".", an.scopeClass>> \o an.selectors[i]

\* the document has no style block, or one with an empty body
NoStyle(content) == FirstBody(content, "<style", ">", "</style>") \in {<<"none">>, <<>>}

C30_WitnessEmptyStyle ==
    /\ ComponentParsed
    /\ an.hasTemplate
    /\ FirstBody(doc.content, "<style", ">", "</style>") = <<>>
    /\ ~an.unwrap
    /\ ~an.hasRootElement
    /\ templates[doc.name].HTML # <<>>

-----------------------------------------------------------------------------
(* Claims about the call stack and the payload under concurrent renders *)

\* the invocations of comp of goroutine r that have pushed their frame and
\* have not popped it yet
Outstanding(r) ==
    Cardinality({i \in 1..Len(frames[r]) :
                    frames[r][i].via = "comp" /\ frames[r][i].st \in {"run", "pop"}})

RECURSIVE SumOutstanding(_)
SumOutstanding(S) ==
    IF S = {} THEN 0
    ELSE LET r == CHOOSE x \in S : TRUE
         IN  Outstanding(r) + SumOutstanding(S \ {r})

\* goroutine r is about to run the deferred pop of an invocation
AboutToPop(r) ==
    /\ Evaluating(r)
    /\ Top(r).via = "comp"
    /\ Top(r).st = "pop" \/ AtEnd(Top(r))

\* C27: whatever the interleaving of the renders, the call stack holds one
\* frame for each invocation that has pushed and not yet popped: a pop finds
\* the stack non-empty, and the stack is empty when every render has returned.
C27_StackNeverUnderflows ==
    /\ Len(compStack) = SumOutstanding(Renders)
    /\ \A r \in Renders : AboutToPop(r) => Len(compStack) > 0
    /\ (\A r \in Renders : pc[r] \in {"idle", "done"}) => compStack = <<>>

\* a pop, made while frames remain, removes a frame that another goroutine
\* had pushed
C27_Witness ==
    \E r \in Renders : ret[r].n = 1 /\ ret[r].popped \notin {0, r} /\ ret[r].after > 0

\* every render has returned
C27_WitnessReturned ==
    /\ \A r \in Renders : pc[r] = "done"
    /\ compStack = <<>>
    /\ \E r \in Renders : res[r] = Ok

\* the names the shell text holds in a static comp reference
StaticShellNames ==
    {layout.HTML[i].name :
        i \in {j \in 1..Len(layout.HTML) : layout.HTML[j].op \in {"comp", "compData"}}}

\* the components the shell invokes when render r evaluates it
ShellCalls(r) ==
    {layout.HTML[i].name : i \in {j \in 1..Len(layout.HTML) : layout.HTML[j].op = "comp"}}
    \cup {cur[r].data : i \in {j \in 1..Len(layout.HTML) : layout.HTML[j].op = "compData"}}

\* the registered components that render r reaches first while it evaluates
\* the shell
FirstInShell(r) ==
    (ReachFrom(templates, ShellCalls(r)) \ ReachFrom(templates, {cur[r].name}))
        \cap DOMAIN templates

-----------------------------------------------------------------------------
(* Claims about the arguments of an invocation *)

\* the arguments indexed by position: "0" .. "n-1"
Positional(args) ==
    {p \in {"0", "1", "2", "3", "4", "5", "6", "7", "8", "9"} \X Range(args) :
        \E i \in 1..Len(args) : p[1] = IndexText(i - 1) /\ p[2] = args[i]}

IsMapping(v) == v.kind \in {"map[string]interface{}", "map[string]string"}

Normalized == fn.op = "comp" /\ fn.done

\* C23: when comp is given exactly one argument and it is a key-value
\* mapping, the mapping is the data of the callee; in every other case the
\* data maps "i" to the i-th argument for 0 <= i < n and has no other key.
C23_SingleMappingIsData ==
    Normalized =>
        IF Len(fn.args) = 1 /\ IsMapping(fn.args[1])
        THEN fn.data = fn.args[1].map
        ELSE fn.data = Positional(fn.args)

\* C23 as the code has it: the mapping that becomes the data is a
\* map[string]interface{}, the type dict returns; a single argument of
\* another map type is argument "0" like any other value.
C23_SingleDictIsData ==
    Normalized =>
        IF Len(fn.args) = 1 /\ fn.args[1].kind = "map[string]interface{}"
        THEN fn.data = fn.args[1].map
        ELSE fn.data = Positional(fn.args)

\* comp was given one map[string]interface{} with a key
C23_Witness ==
    /\ Normalized
    /\ Len(fn.args) = 1
    /\ fn.args[1].kind = "map[string]interface{}"
    /\ fn.data = {<<"title", Str("t")>>}

\* comp was given two arguments, the first of them a map
C23_WitnessPositional ==
    /\ Normalized
    /\ Len(fn.args) = 2
    /\ IsMapping(fn.args[1])
    /\ fn.data = {<<"0", fn.args[1]>>, <<"1", fn.args[2]>>}

\* the i-th argument of the top frame, nil when there is none
TopArg(stack, i) ==
    IF stack = <<>> THEN Nil
    ELSE IF i \in 0..(Len(stack[Len(stack)].Args) - 1)
    THEN stack[Len(stack)].Args[i + 1]
    ELSE Nil

\* C24: param(i) is the i-th argument of the top frame, and nil when the
\* stack is empty or i is out of range; paramOr(i, d) is the same value, and
\* d where param(i) is nil; the call stack is the same after the call.
C24_ParamAccessors ==
    /\ (fn.op = "param" /\ fn.done) =>
          /\ fn.out = TopArg(fn.stack, fn.index)
          /\ fn.after = fn.stack
    /\ (fn.op = "paramOr" /\ fn.done) =>
          /\ fn.out = IF TopArg(fn.stack, fn.index) = Nil THEN fn.dflt
                      ELSE TopArg(fn.stack, fn.index)
          /\ fn.after = fn.stack

\* paramOr on a stack of two frames whose top frame has nil as the argument
\* asked for, while the frame below has a value there
C24_Witness ==
    /\ fn.op = "paramOr" /\ fn.done
    /\ Len(fn.stack) = 2
    /\ fn.index = 0
    /\ Len(fn.stack[2].Args) > 0 /\ fn.stack[2].Args[1] = Nil
    /\ Len(fn.stack[1].Args) > 0 /\ fn.stack[1].Args[1] # Nil
    /\ fn.out = fn.dflt

\* param with a negative index and with an index past the last argument
C24_WitnessOutOfRange ==
    /\ fn.op = "param" /\ fn.done
    /\ fn.stack # <<>>
    /\ fn.index \in {-1, Len(fn.stack[Len(fn.stack)].Args)}
    /\ fn.out = Nil

-----------------------------------------------------------------------------
(* Claims about concurrent bulk loads and the locks *)

\* C25: a name looked up in the registry gives the component some load
\* registered under it, and two bulk loads that run at the same time are
\* never both inside a write of the registry, nor stopped by the runtime.
C25_RegistrationExclusive ==
    /\ \A name \in DOMAIN templates :
          \E r \in Renders : templates[name] = RegTemplate(r, name)
    /\ Cardinality(Writers) <= 1
    /\ ~Fatal

\* the mutexes goroutine r holds
Held(r) == {m \in {"mu", "compMu"} : lk[m] = r}

\* goroutine r waits for a mutex that another goroutine holds
Waiting(r) == AtOp(r) /\ NextOp(r).op = "lock" /\ lk[NextOp(r).m] \notin {0, r}

\* a goroutine that holds a mutex holds no other, is not about to evaluate a
\* template, and releases it with its next step
LockDiscipline ==
    \A r \in Renders :
        /\ Cardinality(Held(r)) <= 1
        /\ \A m \in Held(r) : AtOp(r) /\ NextOp(r) = Unlock(m)
        /\ lk.th[r].pc = "done" => Held(r) = {}

AllReturned == \A r \in Renders : lk.th[r].pc = "done"

\* C28: concurrent renders never hold ts.mu and compMu together nor hold
\* either across the evaluation of a template, every acquisition is followed
\* by its release, and every render returns.
C28_NoLockDeadlock == []LockDiscipline /\ <>AllReturned

\* a goroutine waits for compMu while another holds it inside the deferred
\* pop of a comp call whose template failed
C28_Witness ==
    \E r, q \in Renders :
        /\ Waiting(r)
        /\ NextOp(r).m = "compMu"
        /\ Held(q) = {"compMu"}
        /\ lk.th[q].failing

====
